---- MODULE Spec2Model ----
(***************************************************************************)
(* A model of the request dispatch pipeline of the Anxiety framework:      *)
(* RouterEngine (path joining, route registration, middleware adaptation,  *)
(* parameter extraction, handler wrapping) and GlobalExceptionFilter.      *)
(*                                                                         *)
(* Strings whose characters matter (route paths, URLs) are sequences of    *)
(* one-character strings; other strings are TLA+ strings.                  *)
(***************************************************************************)
EXTENDS Integers, Sequences, FiniteSets, TLC

VARIABLES
    cpArgs,         \* combinePaths: the argument list <<basePath, prefix, path>>
    cpResult,       \* combinePaths: the returned path, <<>> before the call
    paramMetadata,  \* ROUTE_PARAM_METADATA of one handler method: ParamMetadata[]
    argReq,         \* the request last given to extractMethodArguments
    args,           \* the argument array it returned, NoArgs before the first call
    exception,      \* GlobalExceptionFilter.catch: the thrown value it is given
    nodeEnv,        \* process.env.NODE_ENV
    filterReq,      \* the request given to catch: originalUrl, method, context.requestId
    filterRes,      \* the response given to catch: writes, statusCode, body
    filterPc,       \* "ready" before catch, then "returned" or "threw"
    handledBy,      \* the filter or handler of the error layer that took the error
    routes,            \* ROUTES_METADATA of the controller class: RouteDefinition[]
    controllerPrefix,  \* 'controller_prefix' metadata of the controller class
    classMiddlewares,  \* MIDDLEWARE_METADATA of the controller class
    methodMiddlewares, \* MIDDLEWARE_METADATA of each handler method
    router,            \* RouterEngine.router: the layers bound so far, in binding order
    dispatched,        \* the layer the router chose for the last request given to it
    routerRefs,        \* the router references that getRouter has returned, in order
    guardCall,         \* one call of a guard's canActivate: its inputs, then its outcome
    reflect,           \* the metadata of a class hierarchy: who owns which array
    cache,             \* CacheInterceptor: its options, its entries and the clock
    database,          \* DatabaseService: its connection and what reached the data source
    pipe,              \* one call of ValidationPipe.transform: its inputs, then its outcome
    requests,          \* the requests being served, each with its response
    running            \* the call stack: the wrappers executing synchronously

pathVars == <<cpArgs, cpResult>>

argVars == <<paramMetadata, argReq, args>>

filterVars == <<exception, nodeEnv, filterReq, filterRes, filterPc, handledBy>>

metaVars == <<routes, controllerPrefix, classMiddlewares, methodMiddlewares>>

serveVars == <<requests, running>>

bootVars == <<routerRefs>>

guardVars == <<guardCall>>

libVars == <<reflect, cache, database, pipe>>

engineVars == <<routes, controllerPrefix, classMiddlewares, methodMiddlewares,
                router, dispatched, routerRefs, guardCall, requests, running>>

vars == <<cpArgs, cpResult, paramMetadata, argReq, args,
          exception, nodeEnv, filterReq, filterRes, filterPc, handledBy,
          routes, controllerPrefix, classMiddlewares, methodMiddlewares,
          router, dispatched, routerRefs, guardCall, requests, running,
          reflect, cache, database, pipe>>

(***************************************************************************)
(* Bounds                                                                  *)
(***************************************************************************)
\* longest path segment given to combinePaths
MaxLen == 3

\* most parameter decorators on one handler method
MaxParams == 3

\* largest parameter index a decorator names
MaxIndex == 2

\* most route decorators on one controller class
MaxRoutes == 3

\* requests in flight at once
NumRequests == 2

\* most middleware classes declared on the controller class
MaxClassMiddlewares == 2

\* most middleware classes declared on one handler method
MaxMethodMiddlewares == 1

\* declarations applied to one controller class in the Metadata Store
MaxDeclarations == 3

\* registerController calls for one controller class
MaxRegistrations == 2

\* router references obtained with getRouter
MaxRefs == 2

\* route and parameter decorators applied in a class hierarchy
MaxHierarchyDeclarations == 3

\* largest maxSize a CacheInterceptor is configured with
MaxCacheSize == 2

\* largest ttl, and how far the clock runs, in units of time
MaxClock == 2

\* lookups and stores of one CacheInterceptor
MaxCacheOps == 7
MaxDatabaseCalls == 4
MaxFieldLength == 3
MaxRuleLength == 2

(***************************************************************************)
(* Values, and the state of each part before it is used                    *)
(***************************************************************************)
\* JavaScript values are tuples of strings, so that any two can be compared:
\* a string, undefined, or a reference to an object of the request
Str(v) == <<"str", v>>

Undefined == <<"undefined">>

Ref(name) == <<"ref", name>>

\* a decorator called without a key leaves ParamMetadata.key undefined
NoKey == "<no key>"

Keys == {"id", "include", "user-agent"}

\* req.params, req.query, req.headers: obj[key] is undefined for an absent key
EmptyMap == [k \in Keys |-> Undefined]

NoArgs == <<"not called">>

NoRequest == [params |-> EmptyMap, query |-> EmptyMap, headers |-> EmptyMap,
              body |-> Undefined]

PathsIdle == cpArgs = <<>> /\ cpResult = <<>>

\* the controller classes of the hierarchy: ChildController extends
\* BaseController, OtherController extends nothing
Classes == {"BaseController", "ChildController", "OtherController"}

\* no class has metadata of its own, no array exists, nothing is registered
NoReflect ==
    [heap |-> <<>>, routes |-> [c \in Classes |-> 0], params |-> [c \in Classes |-> 0],
     bound |-> <<>>, last |-> "none"]

\* a CacheInterceptor that was not constructed
NoCache ==
    [maxSize |-> 0, ttl |-> 0, now |-> 0, ops |-> 0, entries |-> <<>>, pending |-> {},
     evicted |-> <<>>]

NoDatabase ==
    [isInitialized |-> FALSE, everConnected |-> FALSE, calls |-> 0, reached |-> <<>>,
     last |-> [op |-> "none", outcome |-> "none", message |-> <<>>]]

NoPipe ==
    [rule |-> [required |-> FALSE, hasMinLength |-> FALSE, minLength |-> 0,
               hasMaxLength |-> FALSE, maxLength |-> 0],
     options |-> [transform |-> FALSE],
     input |-> [type |-> "undefined", text |-> <<>>],
     outcome |-> "idle", error |-> "none",
     result |-> [type |-> "undefined", text |-> <<>>]]

LibIdle == reflect = NoReflect /\ cache = NoCache /\ database = NoDatabase /\ pipe = NoPipe

ArgsIdle == paramMetadata = <<>> /\ argReq = NoRequest /\ args = NoArgs

\* a field that a JSON body does not have
Absent == <<"absent">>

\* an Express response before anything is written: statusCode defaults to 200
FreshResponse == [writes |-> 0, statusCode |-> 200, body |-> Absent]

NoException == [kind |-> "undefined", name |-> Undefined, message |-> Undefined,
                status |-> 0, error |-> Undefined, stack |-> Undefined]

NoFilterRequest == [originalUrl |-> Str("/"), method |-> Str("GET"), requestId |-> Undefined]

\* handler methods are named by the order of their route decorators
MethodNames == 1..(MaxRoutes + 1)

Reqs == 1..NumRequests

NoDispatch == [url |-> <<>>, method |-> "none", layer |-> 0, methodName |-> 0,
               params |-> <<>>]

\* a request that has not arrived
NoReq ==
    [phase |-> "new", token |-> "none", user |-> FALSE, layer |-> 0, idx |-> 0,
     frames |-> <<>>, res |-> FreshResponse, writer |-> 0, started |-> <<>>,
     handlerCalls |-> 0, receiver |-> <<"none", 0>>, result |-> "none",
     manualSend |-> FALSE, engineJson |-> 0, thrown |-> 0, forwarded |-> <<>>,
     unhandled |-> 0, errorLayer |-> "idle"]

\* req.user when nothing has set it
NoUser == [present |-> FALSE, hasRoles |-> FALSE, roles |-> {}]

\* a guard call that has not been set up
NoGuardCall ==
    [guard |-> "idle", requiredRoles |-> {}, returned |-> "not called",
     req |-> [authorization |-> Absent, user |-> NoUser,
              context |-> [authenticated |-> FALSE, authorized |-> FALSE]],
     res |-> FreshResponse]

EngineIdle ==
    /\ routes = <<>> /\ controllerPrefix = <<>> /\ classMiddlewares = <<>>
    /\ methodMiddlewares = [m \in MethodNames |-> <<>>]
    /\ router = <<>> /\ dispatched = NoDispatch /\ routerRefs = <<>>
    /\ guardCall = NoGuardCall
    /\ requests = [r \in Reqs |-> NoReq] /\ running = <<>>

FilterIdle ==
    /\ exception = NoException /\ nodeEnv = "test" /\ filterReq = NoFilterRequest
    /\ filterRes = FreshResponse /\ filterPc = "idle" /\ handledBy = "none"

(***************************************************************************)
(* Characters and strings                                                  *)
(***************************************************************************)
\* "/" separator, ":" placeholder mark, " " whitespace, "a" any other character
PathChars == {"/", ":", " ", "a"}

StringsUpTo(chars, n) == UNION {[1..k -> chars] : k \in 0..n}

Last(s) == s[Len(s)]

Front(s) == SubSeq(s, 1, Len(s) - 1)

\* String.prototype.trim() !== '' : some character is not whitespace
TrimNonEmpty(s) == \E i \in 1..Len(s) : s[i] # " "

\* String.prototype.replace(/^\/|\/$/g, '') : one leading and one trailing slash
StripEdgeSlashes(s) ==
    LET s1 == IF Len(s) > 0 /\ Head(s) = "/" THEN Tail(s) ELSE s
    IN  IF Len(s1) > 0 /\ Last(s1) = "/" THEN Front(s1) ELSE s1

\* Array.prototype.filter
RECURSIVE SelectPaths(_)
SelectPaths(ps) ==
    IF ps = <<>> THEN <<>>
    ELSE IF Len(Head(ps)) > 0 /\ TrimNonEmpty(Head(ps))
         THEN <<Head(ps)>> \o SelectPaths(Tail(ps))
         ELSE SelectPaths(Tail(ps))

\* Array.prototype.join('/')
RECURSIVE JoinSlash(_)
JoinSlash(ps) ==
    IF ps = <<>> THEN <<>>
    ELSE IF Len(ps) = 1 THEN Head(ps)
    ELSE Head(ps) \o <<"/">> \o JoinSlash(Tail(ps))

\* RouterEngine.combinePaths(...paths)
combinePaths(paths) ==
    LET kept       == SelectPaths(paths)
        cleanPaths == [i \in 1..Len(kept) |-> StripEdgeSlashes(kept[i])]
        result     == <<"/">> \o JoinSlash(cleanPaths)
    IN  IF result = <<"/">> THEN <<"/">>
        ELSE IF Last(result) = "/" THEN Front(result) ELSE result

(***************************************************************************)
(* Parameter Resolver                                                      *)
(***************************************************************************)
ParamTypes == {"param", "query", "body", "headers", "request", "response"}

KeyedTypes == {"param", "query", "headers"}

\* ParamMetadata { index, type, key? }
ParamMetadata ==
    [index : 0..MaxIndex, type : KeyedTypes, key : Keys \cup {NoKey}]
        \cup [index : 0..MaxIndex, type : ParamTypes \ KeyedTypes, key : {NoKey}]

\* the keys the handlers of the test controllers ask for
ParamKeys == {"id"}

QueryKeys == {"include"}

HeaderKeys == {"user-agent"}

\* the requests served: GET /api/test/123?include=details with user-agent X,
\* a POST with a body and none of the keys, and a request that carries each
\* key in the two maps it is not asked from
ArgRequests ==
    { [params  |-> [EmptyMap EXCEPT !["id"] = Str("123")],
       query   |-> [EmptyMap EXCEPT !["include"] = Str("details")],
       headers |-> [EmptyMap EXCEPT !["user-agent"] = Str("X")],
       body    |-> Undefined],
      [params  |-> EmptyMap, query |-> EmptyMap, headers |-> EmptyMap,
       body    |-> Str("payload")],
      [params  |-> [EmptyMap EXCEPT !["include"] = Str("p1"), !["user-agent"] = Str("p2")],
       query   |-> [EmptyMap EXCEPT !["id"] = Str("q1"), !["user-agent"] = Str("q2")],
       headers |-> [EmptyMap EXCEPT !["id"] = Str("h1"), !["include"] = Str("h2")],
       body    |-> Str("b")] }

\* paramMetadata.sort((a, b) => a.index - b.index): a stable sort
RECURSIVE InsertByIndex(_, _)
InsertByIndex(sorted, p) ==
    IF sorted = <<>> THEN <<p>>
    ELSE IF Last(sorted).index <= p.index THEN Append(sorted, p)
    ELSE Append(InsertByIndex(Front(sorted), p), Last(sorted))

\* a sort that is not stable: a descriptor goes before those of its index
RECURSIVE InsertBeforeEquals(_, _)
InsertBeforeEquals(sorted, p) ==
    IF sorted = <<>> THEN <<p>>
    ELSE IF Last(sorted).index < p.index THEN Append(sorted, p)
    ELSE Append(InsertBeforeEquals(Front(sorted), p), Last(sorted))

RECURSIVE SortByIndex_Unstable(_)
SortByIndex_Unstable(ps) ==
    IF ps = <<>> THEN <<>>
    ELSE InsertBeforeEquals(SortByIndex_Unstable(Front(ps)), Last(ps))

RECURSIVE SortByIndex(_)
SortByIndex(ps) ==
    IF ps = <<>> THEN <<>>
    ELSE InsertByIndex(SortByIndex(Front(ps)), Last(ps))

\* args[index] = value on a JavaScript array: holes read as undefined
SetAt(arr, index, value) ==
    [i \in 1..(IF index + 1 > Len(arr) THEN index + 1 ELSE Len(arr)) |->
        IF i = index + 1 THEN value
        ELSE IF i <= Len(arr) THEN arr[i] ELSE Undefined]

\* a resolver whose 'query' case reads the path parameters
ResolveParam_QueryFromParams(req, param) ==
    CASE param.type = "param" ->
            IF param.key # NoKey THEN req.params[param.key] ELSE Ref("req.params")
      [] param.type = "query" ->
            IF param.key # NoKey THEN req.params[param.key] ELSE Ref("req.query")
      [] param.type = "body" -> req.body
      [] param.type = "headers" ->
            IF param.key # NoKey THEN req.headers[param.key] ELSE Ref("req.headers")
      [] param.type = "request" -> Ref("req")
      [] param.type = "response" -> Ref("res")
      [] OTHER -> Undefined

\* the switch on param.type in extractMethodArguments
ResolveParam(req, param) ==
    CASE param.type = "param" ->
            IF param.key # NoKey THEN req.params[param.key] ELSE Ref("req.params")
      [] param.type = "query" ->
            IF param.key # NoKey THEN req.query[param.key] ELSE Ref("req.query")
      [] param.type = "body" -> req.body
      [] param.type = "headers" ->
            IF param.key # NoKey THEN req.headers[param.key] ELSE Ref("req.headers")
      [] param.type = "request" -> Ref("req")
      [] param.type = "response" -> Ref("res")
      [] OTHER -> Undefined

\* the forEach over the sorted descriptors
RECURSIVE FillArgs(_, _, _)
FillArgs(req, sorted, acc) ==
    IF sorted = <<>> THEN acc
    ELSE FillArgs(req, Tail(sorted),
                  SetAt(acc, Head(sorted).index, ResolveParam(req, Head(sorted))))

\* RouterEngine.extractMethodArguments(req, res, paramMetadata)
extractMethodArguments(req, metadata) == FillArgs(req, SortByIndex(metadata), <<>>)

InitArgs == PathsIdle /\ ArgsIdle /\ LibIdle /\ FilterIdle /\ EngineIdle

\* a parameter decorator pushes one descriptor onto the method's list
DeclareParam(type, key, index) ==
    /\ args = NoArgs
    /\ Len(paramMetadata) < MaxParams
    /\ paramMetadata' = Append(paramMetadata, [index |-> index, type |-> type, key |-> key])
    /\ UNCHANGED <<argReq, args, pathVars, filterVars, engineVars, libVars>>

Param == \E i \in 0..MaxIndex, k \in ParamKeys \cup {NoKey} : DeclareParam("param", k, i)

Query == \E i \in 0..MaxIndex, k \in QueryKeys \cup {NoKey} : DeclareParam("query", k, i)

Body == \E i \in 0..MaxIndex : DeclareParam("body", NoKey, i)

Req == \E i \in 0..MaxIndex : DeclareParam("request", NoKey, i)

Res == \E i \in 0..MaxIndex : DeclareParam("response", NoKey, i)

Headers == \E i \in 0..MaxIndex, k \in HeaderKeys \cup {NoKey} : DeclareParam("headers", k, i)

\* one call of extractMethodArguments; the sort reorders the stored list in place
ExtractMethodArguments ==
    \E req \in ArgRequests :
        /\ argReq' = req
        /\ args' = extractMethodArguments(req, paramMetadata)
        /\ paramMetadata' = SortByIndex(paramMetadata)
        /\ UNCHANGED <<pathVars, filterVars, engineVars, libVars>>

NextArgs == Param \/ Query \/ Body \/ Req \/ Res \/ Headers \/ ExtractMethodArguments

SpecArgs == InitArgs /\ [][NextArgs]_vars

(***************************************************************************)
(* Exception/Filter Layer: GlobalExceptionFilter                           *)
(***************************************************************************)
\* The values a throw statement can raise. kind is what instanceof and typeof see:
\*   "HttpException"  an instance of HttpException (or of a subclass)
\*   "SyntaxError", "TypeError"  instances of these built-in classes
\*   "Error"   any other Error object, classified by its name property
\*   "object"  a plain object, with or without a name and a message
\*   "string"  a primitive string;  "null", "undefined"  the two nullish values
ErrorNames == {"Error", "ValidationError", "UnauthorizedError", "ForbiddenError",
               "NotFoundError", "PipeValidationException"}

Messages == {Str("boom"), Str("")}

HttpStatuses == {400, 401, 403, 404, 500, 503}

ThrownValues ==
    [kind : {"HttpException"}, name : {Str("HttpException")}, message : {Str("boom")},
     status : HttpStatuses, error : {Undefined, Str("Custom Error")},
     stack : {Str("stack")}]
    \cup [kind : {"SyntaxError"}, name : {Str("SyntaxError")}, message : Messages,
          status : {0}, error : {Undefined}, stack : {Str("stack")}]
    \cup [kind : {"TypeError"}, name : {Str("TypeError"), Str("NotFoundError")},
          message : Messages, status : {0}, error : {Undefined}, stack : {Str("stack")}]
    \cup [kind : {"Error"}, name : {Str(n) : n \in ErrorNames}, message : Messages,
          status : {0}, error : {Undefined}, stack : {Str("stack")}]
    \cup [kind : {"object"}, name : {Str(n) : n \in ErrorNames} \cup {Undefined},
          message : Messages \cup {Undefined}, status : {0}, error : {Undefined},
          stack : {Undefined}]
    \cup [kind : {"string"}, name : {Undefined}, message : {Undefined},
          status : {0}, error : {Undefined}, stack : {Undefined}]
    \cup [kind : {"null", "undefined"}, name : {Undefined}, message : {Undefined},
          status : {0}, error : {Undefined}, stack : {Undefined}]

\* reading a property of null or undefined throws a TypeError
IsNullish(e) == e.kind \in {"null", "undefined"}

\* a || b on strings: the empty string and undefined are falsy
OrElse(a, b) == IF a = Undefined \/ a = Str("") THEN b ELSE a

\* lines 18-56 of catch: the status, error and message chosen for a non-nullish value
Classify(e, env) ==
    IF e.kind = "HttpException"
    THEN [status |-> e.status, message |-> e.message, error |-> OrElse(e.error, e.name)]
    ELSE IF e.kind = "SyntaxError"
    THEN [status |-> 400, message |-> Str("Invalid JSON syntax"), error |-> Str("Bad Request")]
    ELSE IF e.kind = "TypeError"
    THEN [status |-> 400, message |-> Str("Invalid data type"), error |-> Str("Bad Request")]
    ELSE IF e.name = Str("ValidationError")
    THEN [status |-> 400, message |-> e.message, error |-> Str("Validation Failed")]
    ELSE IF e.name = Str("UnauthorizedError")
    THEN [status |-> 401, message |-> OrElse(e.message, Str("Authentication required")),
          error |-> Str("Unauthorized")]
    ELSE IF e.name = Str("ForbiddenError")
    THEN [status |-> 403, message |-> OrElse(e.message, Str("Access denied")),
          error |-> Str("Forbidden")]
    ELSE IF e.name = Str("NotFoundError")
    THEN [status |-> 404, message |-> OrElse(e.message, Str("Resource not found")),
          error |-> Str("Not Found")]
    ELSE [status |-> 500,
          message |-> IF env = "production" THEN Str("Internal server error")
                      ELSE OrElse(e.message, Str("An unexpected error occurred")),
          error |-> Str("Internal Server Error")]

\* a body that carries the stack in every environment
ErrorResponse_StackAlways(e, env, req) ==
    LET c == Classify(e, env)
    IN  [statusCode |-> c.status,
         timestamp  |-> Str("now"),
         path       |-> req.originalUrl,
         method     |-> req.method,
         error      |-> c.error,
         message    |-> IF c.message = Undefined THEN Absent ELSE c.message,
         stack      |-> IF e.stack # Undefined THEN e.stack ELSE Absent,
         requestId  |-> IF req.requestId # Undefined /\ req.requestId # Str("")
                        THEN req.requestId ELSE Absent]

\* lines 67-82 of catch: the JSON body; JSON.stringify drops undefined fields
ErrorResponse(e, env, req) ==
    LET c == Classify(e, env)
    IN  [statusCode |-> c.status,
         timestamp  |-> Str("now"),
         path       |-> req.originalUrl,
         method     |-> req.method,
         error      |-> c.error,
         message    |-> IF c.message = Undefined THEN Absent ELSE c.message,
         stack      |-> IF env # "production" /\ e.stack # Undefined THEN e.stack ELSE Absent,
         requestId  |-> IF req.requestId # Undefined /\ req.requestId # Str("")
                        THEN req.requestId ELSE Absent]

\* res.status(code).json(body)
StatusJson(res, code, body) ==
    [writes |-> res.writes + 1, statusCode |-> code, body |-> body]

InitFilter ==
    /\ PathsIdle /\ ArgsIdle /\ LibIdle /\ EngineIdle
    /\ exception \in ThrownValues
    /\ nodeEnv \in {"production", "development", "test"}
    /\ filterReq \in [originalUrl : {Str("/api/test/1")}, method : {Str("GET")},
                      requestId : {Undefined, Str("r1")}]
    /\ filterRes = FreshResponse
    /\ filterPc = "ready"
    /\ handledBy = "none"

\* GlobalExceptionFilter.catch(exception, req, res)
GlobalExceptionFilterCatch ==
    /\ filterPc = "ready"
    /\ handledBy' = "GlobalExceptionFilter"
    /\ IF IsNullish(exception)
       THEN /\ filterPc' = "threw"
            /\ UNCHANGED filterRes
       ELSE /\ filterPc' = "returned"
            /\ filterRes' = StatusJson(filterRes, Classify(exception, nodeEnv).status,
                                       ErrorResponse(exception, nodeEnv, filterReq))
    /\ UNCHANGED <<exception, nodeEnv, filterReq, pathVars, argVars, engineVars, libVars>>

NextFilter == GlobalExceptionFilterCatch

SpecFilter == InitFilter /\ [][NextFilter]_vars

(***************************************************************************)
(* Exception/Filter Layer: the other filters, and the error handling that  *)
(* AnxietyApplication.setupErrorHandling installs behind the router        *)
(***************************************************************************)
\* HttpExceptionFilter.catch: lines 100-107, the JSON body
HttpErrorResponse(e, req) ==
    [statusCode |-> e.status,
     timestamp  |-> Str("now"),
     path       |-> req.originalUrl,
     method     |-> req.method,
     message    |-> e.message,
     error      |-> OrElse(e.error, e.name),
     requestId  |-> IF req.requestId # Undefined /\ req.requestId # Str("")
                    THEN req.requestId ELSE Absent]

\* HttpExceptionFilter.catch(exception: HttpException, req, res)
HttpExceptionFilterCatch ==
    /\ filterPc = "ready"
    /\ exception.kind = "HttpException"
    /\ handledBy' = "HttpExceptionFilter"
    /\ filterPc' = "returned"
    /\ filterRes' = StatusJson(filterRes, exception.status,
                               HttpErrorResponse(exception, filterReq))
    /\ UNCHANGED <<exception, nodeEnv, filterReq, pathVars, argVars, engineVars, libVars>>

\* ValidationExceptionFilter.catch: lines 132-159; none of the thrown values
\* carries errors, details or a field, so details is undefined and dropped
ValidationErrorResponse(e, req) ==
    [statusCode |-> 400,
     timestamp  |-> Str("now"),
     path       |-> req.originalUrl,
     method     |-> req.method,
     error      |-> Str("Validation Error"),
     message    |-> IF e.name \in {Str("ValidationError"), Str("PipeValidationException")}
                    THEN (IF e.message = Undefined THEN Absent ELSE e.message)
                    ELSE Str("Validation failed"),
     requestId  |-> IF req.requestId # Undefined /\ req.requestId # Str("")
                    THEN req.requestId ELSE Absent]

\* ValidationExceptionFilter.catch(exception, req, res)
ValidationExceptionFilterCatch ==
    /\ filterPc = "ready"
    /\ handledBy' = "ValidationExceptionFilter"
    /\ IF IsNullish(exception)
       THEN /\ filterPc' = "threw"
            /\ UNCHANGED filterRes
       ELSE /\ filterPc' = "returned"
            /\ filterRes' = StatusJson(filterRes, 400,
                                       ValidationErrorResponse(exception, filterReq))
    /\ UNCHANGED <<exception, nodeEnv, filterReq, pathVars, argVars, engineVars, libVars>>

\* a handler of a route registered through AnxietyApplication throws the value:
\* the catch block of createRouteHandler calls next(error), and the transport
\* takes next(null) and next(undefined) as "no error, try the next layer"
RouteHandlerThrows ==
    /\ filterPc = "ready"
    /\ handledBy' = "createRouteHandler"
    /\ filterPc' = IF IsNullish(exception) THEN "unmatched" ELSE "forwarded"
    /\ UNCHANGED <<exception, nodeEnv, filterReq, filterRes, pathVars, argVars, engineVars, libVars>>

\* a request that no route of the application matches
NoRouteMatches ==
    /\ filterPc = "ready"
    /\ handledBy' = "router"
    /\ filterPc' = "unmatched"
    /\ UNCHANGED <<exception, nodeEnv, filterReq, filterRes, pathVars, argVars, engineVars, libVars>>

\* setupErrorHandling lines 92-99, the error handling middleware that init
\* installs after the router: status 500 and {error, message, timestamp}
ErrorHandlingMiddleware ==
    /\ filterPc = "forwarded"
    /\ handledBy' = "ErrorHandlingMiddleware"
    /\ filterPc' = "returned"
    /\ filterRes' = StatusJson(filterRes, 500,
           [error     |-> Str("Internal Server Error"),
            message   |-> OrElse(exception.message, Str("Something went wrong!")),
            timestamp |-> Str("now")])
    /\ UNCHANGED <<exception, nodeEnv, filterReq, pathVars, argVars, engineVars, libVars>>

\* setupErrorHandling lines 102-108, the 404 handler
NotFoundHandler ==
    /\ filterPc = "unmatched"
    /\ handledBy' = "NotFoundHandler"
    /\ filterPc' = "returned"
    /\ filterRes' = StatusJson(filterRes, 404,
           [error     |-> Str("Not Found"),
            message   |-> <<"Route not found", filterReq.method, filterReq.originalUrl>>,
            timestamp |-> Str("now")])
    /\ UNCHANGED <<exception, nodeEnv, filterReq, pathVars, argVars, engineVars, libVars>>

InitErrors == InitFilter

NextErrors ==
    \/ GlobalExceptionFilterCatch
    \/ HttpExceptionFilterCatch
    \/ ValidationExceptionFilterCatch
    \/ RouteHandlerThrows
    \/ NoRouteMatches
    \/ ErrorHandlingMiddleware
    \/ NotFoundHandler

SpecErrors == InitErrors /\ [][NextErrors]_vars

(***************************************************************************)
(* Route Table Builder and Router Engine: registration                     *)
(***************************************************************************)
Methods == {"get", "post"}

\* the paths given to the route decorators: "", "/b", "b", "/b/a" are static,
\* "/:a" and "/b/:a" are dynamic
RoutePaths ==
    { <<>>, <<"/", "b">>, <<"b">>, <<"/", "b", "/", "a">>,
      <<"/", ":", "a">>, <<"/", "b", "/", ":", "a">> }

ControllerPrefixes == { <<>>, <<"/", "a">> }

BasePaths == { <<>>, <<"a">> }

\* a decorator that stores the new entry in place of the list
createMappingDecorator_Replace(method, path, methodName) ==
    /\ router = <<>>
    /\ Len(routes) < MaxRoutes
    /\ routes' = << [path |-> path, method |-> method, methodName |-> methodName] >>
    /\ UNCHANGED <<controllerPrefix, classMiddlewares, methodMiddlewares,
                   router, dispatched, serveVars, pathVars, guardVars, argVars, filterVars, bootVars, libVars>>

\* createMappingDecorator(method)(path) applied to the method methodName:
\* one push onto the class's list, which is then stored again
createMappingDecorator(method, path, methodName) ==
    /\ router = <<>>
    /\ Len(routes) < MaxRoutes
    /\ routes' = Append(routes, [path |-> path, method |-> method,
                                 methodName |-> methodName])
    /\ UNCHANGED <<controllerPrefix, classMiddlewares, methodMiddlewares,
                   router, dispatched, serveVars, pathVars, guardVars, argVars, filterVars, bootVars, libVars>>

\* a route decorator on a method of its own: the methods are named by the
\* order of their decorators
DeclareRoute(method, path) == createMappingDecorator(method, path, Len(routes) + 1)

Get == \E path \in RoutePaths : DeclareRoute("get", path)

Post == \E path \in RoutePaths : DeclareRoute("post", path)

\* a.path.includes(':')
IsDynamic(route) == \E i \in 1..Len(route.path) : route.path[i] = ":"

\* the comparator given to routes.sort
CompareRoutes(a, b) ==
    IF IsDynamic(a) = IsDynamic(b) THEN 0
    ELSE IF IsDynamic(a) THEN 1 ELSE -1

RECURSIVE InsertRoute(_, _)
InsertRoute(sorted, r) ==
    IF sorted = <<>> THEN <<r>>
    ELSE IF CompareRoutes(Last(sorted), r) <= 0 THEN Append(sorted, r)
    ELSE Append(InsertRoute(Front(sorted), r), Last(sorted))

\* an unstable sort: static before dynamic, each group in reverse order
RECURSIVE SortRoutes_Unstable(_)
SortRoutes_Unstable(rs) ==
    IF rs = <<>> THEN <<>>
    ELSE LET rest == SortRoutes_Unstable(Tail(rs))
             statics == SelectSeq(rest, LAMBDA x : ~IsDynamic(x))
             dynamics == SelectSeq(rest, LAMBDA x : IsDynamic(x))
         IN  IF IsDynamic(Head(rs))
             THEN statics \o dynamics \o <<Head(rs)>>
             ELSE statics \o <<Head(rs)>> \o dynamics

\* registerController without the sort: routes stay in declaration order
SortRoutes_Unsorted(rs) == rs

\* routes.sort(comparator): Array.prototype.sort is stable
RECURSIVE SortRoutes(_)
SortRoutes(rs) ==
    IF rs = <<>> THEN <<>>
    ELSE InsertRoute(SortRoutes(Front(rs)), Last(rs))

\* a binding that composes the method's middleware before the class's
BindRoute_MethodFirst(route, basePath, prefix, classMws, methodMws) ==
    [method      |-> route.method,
     path        |-> combinePaths(<<basePath, prefix, route.path>>),
     middlewares |-> methodMws[route.methodName] \o classMws,
     methodName  |-> route.methodName]

\* the layer that router[route.method](fullPath, ...expressMiddlewares, handler) binds
BindRoute(route, basePath, prefix, classMws, methodMws) ==
    [method      |-> route.method,
     path        |-> combinePaths(<<basePath, prefix, route.path>>),
     middlewares |-> classMws \o methodMws[route.methodName],
     methodName  |-> route.methodName]

\* the controller instances constructed so far: each lives on in the
\* handlers bound for it
ControllerInstances == {router[k].instance : k \in 1..Len(router)}

\* the handler that createRouteHandler(controllerInstance, methodName) returns
\* closes over the instance
WithHandler(layer, controllerInstance) ==
    [method      |-> layer.method,
     path        |-> layer.path,
     middlewares |-> layer.middlewares,
     methodName  |-> layer.methodName,
     instance    |-> controllerInstance]

\* RouterEngine.registerController(controllerClass, basePath): one
\* new controllerClass(), then the sort, in place on the array the metadata
\* store holds, then one binding per route
registerController(basePath) ==
    /\ Len(routes) > 0
    /\ routes' = SortRoutes(routes)
    /\ LET controllerInstance == <<"controller", Cardinality(ControllerInstances) + 1>>
       IN  router' = router \o
               [i \in 1..Len(routes) |->
                   WithHandler(BindRoute(SortRoutes(routes)[i], basePath, controllerPrefix,
                                         classMiddlewares, methodMiddlewares),
                               controllerInstance)]
    /\ UNCHANGED <<controllerPrefix, classMiddlewares, methodMiddlewares,
                   dispatched, serveVars, pathVars, guardVars, argVars, filterVars, bootVars, libVars>>

\* the registration of a controller at boot
RegisterController(basePath) ==
    /\ router = <<>>
    /\ registerController(basePath)

(***************************************************************************)
(* The transport router: which layer a request goes to                     *)
(***************************************************************************)
\* the segments between the "/" of a path
RECURSIVE Split(_)
Split(s) ==
    IF s = <<>> THEN << <<>> >>
    ELSE IF Head(s) = "/" THEN << <<>> >> \o Split(Tail(s))
    ELSE LET rest == Split(Tail(s))
         IN  << <<Head(s)>> \o Head(rest) >> \o Tail(rest)

\* a trailing "/" of the URL is optional (routing is not strict)
DropTrailingSlash(url) ==
    IF Len(url) > 1 /\ Last(url) = "/" THEN Front(url) ELSE url

IsPlaceholder(seg) == Len(seg) > 1 /\ Head(seg) = ":"

\* ":name" matches any non-empty segment, every other segment only itself
SegmentMatches(pseg, useg) ==
    IF IsPlaceholder(pseg) THEN useg # <<>> ELSE pseg = useg

MatchPath(pattern, url) ==
    LET p == Split(pattern)
        u == Split(DropTrailingSlash(url))
    IN  /\ Len(p) = Len(u)
        /\ \A i \in 1..Len(p) : SegmentMatches(p[i], u[i])

\* req.params: the URL segments the placeholders captured, in order
RECURSIVE Captures(_, _)
Captures(psegs, usegs) ==
    IF psegs = <<>> THEN <<>>
    ELSE IF IsPlaceholder(Head(psegs))
         THEN <<Head(usegs)>> \o Captures(Tail(psegs), Tail(usegs))
         ELSE Captures(Tail(psegs), Tail(usegs))

\* the first layer, in binding order, of the request's method whose path matches
FirstMatch(stack, method, url) ==
    LET hits == {i \in 1..Len(stack) :
                    stack[i].method = method /\ MatchPath(stack[i].path, url)}
    IN  IF hits = {} THEN 0
        ELSE CHOOSE i \in hits : \A j \in hits : i <= j

RouteRequest(stack, method, url) ==
    LET k == FirstMatch(stack, method, url)
    IN  IF k = 0
        THEN [url |-> url, method |-> method, layer |-> 0, methodName |-> 0,
              params |-> <<>>]
        ELSE [url |-> url, method |-> method, layer |-> k,
              methodName |-> stack[k].methodName,
              params |-> Captures(Split(stack[k].path), Split(DropTrailingSlash(url)))]

\* the URLs requested: the full path of every static route a controller can
\* declare, and one URL with no static route
Urls ==
    {combinePaths(<<b, p, rp>>) :
        b \in BasePaths, p \in ControllerPrefixes,
        rp \in {x \in RoutePaths : \A i \in 1..Len(x) : x[i] # ":"}}
    \cup {<<"/", "b", "/", "b">>}

\* a request reaches the router, which picks the layer whose handlers will run;
\* routing keeps no state, so one request per behaviour shows every outcome
Dispatch ==
    /\ router # <<>>
    /\ dispatched = NoDispatch
    /\ \E method \in Methods, url \in Urls :
          dispatched' = RouteRequest(router, method, url)
    /\ UNCHANGED <<metaVars, router, serveVars, pathVars, guardVars, argVars, filterVars, bootVars, libVars>>

(***************************************************************************)
(* Guards: JwtAuthGuard and RolesGuard                                     *)
(*                                                                         *)
(* The authorization header is a sequence of characters, since the guard   *)
(* tests its prefix, slices it and measures it. A user is a record with    *)
(* the set of its role names and whether it has a roles array at all. The  *)
(* response handed to a guard is one nothing was written to.               *)
(***************************************************************************)
BearerPrefix == <<"B", "e", "a", "r", "e", "r", " ">>

InvalidTokenLiteral == <<"i", "n", "v", "a", "l", "i", "d", "-", "t", "o", "k", "e", "n">>

\* token.startsWith(prefix)
StartsWith(token, prefix) ==
    Len(token) >= Len(prefix) /\ SubSeq(token, 1, Len(prefix)) = prefix

\* token.slice(n)
Slice(token, n) == SubSeq(token, n + 1, Len(token))

\* JwtAuthGuard.validateJwtToken
validateJwtToken(token) == Len(token) > 10 /\ token # InvalidTokenLiteral

\* JwtAuthGuard.decodeToken: a fixed user with a role field and no roles array
decodeToken(token) == [present |-> TRUE, hasRoles |-> FALSE, roles |-> {}]

\* the body of a guard's denial
Denial(error, message) ==
    [error |-> Str(error), message |-> Str(message), timestamp |-> Str("now")]

\* a guard that denies and returns false without writing a response
RolesGuardCanActivate_SilentWithoutRoles(requiredRoles, req, res) ==
    IF ~req.user.present
    THEN [returned |-> "false", req |-> req,
          res |-> StatusJson(res, 401, Denial("Unauthorized", "User authentication required"))]
    ELSE IF ~req.user.hasRoles
    THEN [returned |-> "false", req |-> req, res |-> res]
    ELSE IF requiredRoles \cap req.user.roles = {}
    THEN [returned |-> "false", req |-> req,
          res |-> StatusJson(res, 403, Denial("Forbidden", "Access denied"))]
    ELSE [returned |-> "true", res |-> res,
          req |-> [req EXCEPT !.context.authorized = TRUE]]

\* JwtAuthGuard.canActivate(req, res): what it returns, and req and res after it
JwtAuthGuardCanActivate(req, res) ==
    LET token == req.authorization IN
    IF token = Absent \/ token = <<>>
    THEN [returned |-> "false", req |-> req,
          res |-> StatusJson(res, 401, Denial("Unauthorized", "JWT token is required"))]
    ELSE LET bearerToken == IF StartsWith(token, BearerPrefix)
                            THEN Slice(token, Len(BearerPrefix)) ELSE token IN
         IF validateJwtToken(bearerToken)
         THEN [returned |-> "true", res |-> res,
               req |-> [req EXCEPT !.user = decodeToken(bearerToken),
                                   !.context.authenticated = TRUE]]
         ELSE [returned |-> "false", req |-> req,
               res |-> StatusJson(res, 401, Denial("Unauthorized", "Invalid JWT token"))]

\* RolesGuard.canActivate(req, res) of a guard built with requiredRoles
RolesGuardCanActivate(requiredRoles, req, res) ==
    IF ~req.user.present
    THEN [returned |-> "false", req |-> req,
          res |-> StatusJson(res, 401, Denial("Unauthorized", "User authentication required"))]
    ELSE LET userRoles == IF req.user.hasRoles THEN req.user.roles ELSE {}
             hasRequiredRole == \E role \in requiredRoles : role \in userRoles IN
         IF ~hasRequiredRole
         THEN [returned |-> "false", req |-> req,
               res |-> StatusJson(res, 403, Denial("Forbidden", "Access denied"))]
         ELSE [returned |-> "true", res |-> res,
               req |-> [req EXCEPT !.context.authorized = TRUE]]

\* the guard protecting the route calls JwtAuthGuard first
CallJwtAuthGuard ==
    /\ guardCall.guard = "none" /\ guardCall.returned = "not called"
    /\ LET out == JwtAuthGuardCanActivate(guardCall.req, guardCall.res) IN
       guardCall' = [guardCall EXCEPT !.guard = "JwtAuthGuard", !.req = out.req,
                                      !.res = out.res, !.returned = out.returned]
    /\ UNCHANGED <<metaVars, router, dispatched, routerRefs, serveVars, pathVars, argVars,
                   filterVars, libVars>>

\* RolesGuard is called first, or after JwtAuthGuard has let the request pass
CallRolesGuard ==
    /\ \/ guardCall.guard = "none"
       \/ guardCall.guard = "JwtAuthGuard" /\ guardCall.returned = "true"
    /\ LET out == RolesGuardCanActivate(guardCall.requiredRoles, guardCall.req,
                                        guardCall.res) IN
       guardCall' = [guardCall EXCEPT !.guard = "RolesGuard", !.req = out.req,
                                      !.res = out.res, !.returned = out.returned]
    /\ UNCHANGED <<metaVars, router, dispatched, routerRefs, serveVars, pathVars, argVars,
                   filterVars, libVars>>

RoleNames == {"admin", "moderator", "user"}

\* the users a request can carry: none, one without a roles array, one per
\* set of roles
GuardUsers ==
    {NoUser, [present |-> TRUE, hasRoles |-> FALSE, roles |-> {}]}
        \cup {[present |-> TRUE, hasRoles |-> TRUE, roles |-> S] : S \in SUBSET RoleNames}

\* the headers of the guards' tests, and headers on both sides of the length
\* test with and without the bearer prefix
AuthorizationHeaders ==
    { Absent, <<>>,
      <<"i", "n", "v", "a", "l", "i", "d", "-", "t", "o", "k", "e", "n">>,
      <<"B", "e", "a", "r", "e", "r", " ">> \o <<"i", "n", "v", "a", "l", "i", "d", "-", "t", "o", "k", "e", "n">>,
      <<"B", "e", "a", "r", "e", "r", " ">> \o <<"v", "a", "l", "i", "d", "-", "j", "w", "t", "-", "t", "o", "k", "e", "n", "-", "h", "e", "r", "e">>,
      <<"v", "a", "l", "i", "d", "-", "j", "w", "t", "-", "t", "o", "k", "e", "n", "-", "w", "i", "t", "h", "o", "u", "t", "-", "b", "e", "a", "r", "e", "r">>,
      <<"B", "e", "a", "r", "e", "r", " ">>,
      <<"B", "e", "a", "r", "e", "r", " ">> \o <<"a", "b", "c", "d">>,
      <<"B", "e", "a", "r", "e", "r", " ">> \o <<"a", "b", "c", "d", "e", "f", "g", "h", "i", "j">>,
      <<"B", "e", "a", "r", "e", "r", " ">> \o <<"a", "b", "c", "d", "e", "f", "g", "h", "i", "j", "k">>,
      <<"a", "b", "c", "d", "e", "f", "g", "h", "i", "j">>,
      <<"a", "b", "c", "d", "e", "f", "g", "h", "i", "j", "k">> }

InitGuards ==
    /\ PathsIdle /\ ArgsIdle /\ LibIdle /\ FilterIdle
    /\ routes = <<>> /\ controllerPrefix = <<>> /\ classMiddlewares = <<>>
    /\ methodMiddlewares = [m \in MethodNames |-> <<>>]
    /\ router = <<>> /\ dispatched = NoDispatch /\ routerRefs = <<>>
    /\ requests = [r \in Reqs |-> NoReq] /\ running = <<>>
    /\ guardCall \in [guard : {"none"}, returned : {"not called"},
                      requiredRoles : SUBSET {"admin", "moderator"},
                      req : [authorization : AuthorizationHeaders, user : GuardUsers,
                             context : {[authenticated |-> FALSE, authorized |-> FALSE]}],
                      res : {FreshResponse}]

NextGuards == CallJwtAuthGuard \/ CallRolesGuard

SpecGuards == InitGuards /\ [][NextGuards]_vars

(***************************************************************************)
(* Middleware Chain Composer: declaration                                  *)
(***************************************************************************)
\* LoggingMiddleware and AuthMiddleware are the built-in middleware,
\* CustomMiddleware any middleware an application writes, and RolesGuard a
\* guard class: it has canActivate and no use method
MiddlewareClasses == {"LoggingMiddleware", "AuthMiddleware", "CustomMiddleware", "RolesGuard"}

GuardClasses == {"RolesGuard"}

\* UseMiddleware(m) applied to the controller class
UseMiddlewareOnClass(m) ==
    /\ router = <<>>
    /\ Len(classMiddlewares) < MaxClassMiddlewares
    /\ classMiddlewares' = classMiddlewares \o <<m>>
    /\ UNCHANGED <<routes, controllerPrefix, methodMiddlewares, router, dispatched,
                   serveVars, pathVars, guardVars, argVars, filterVars, bootVars, libVars>>

\* UseMiddleware(m) applied to a handler method
UseMiddlewareOnMethod(name, m) ==
    /\ router = <<>>
    /\ Len(methodMiddlewares[name]) < MaxMethodMiddlewares
    /\ methodMiddlewares' =
           [methodMiddlewares EXCEPT ![name] = methodMiddlewares[name] \o <<m>>]
    /\ UNCHANGED <<routes, controllerPrefix, classMiddlewares, router, dispatched,
                   serveVars, pathVars, guardVars, argVars, filterVars, bootVars, libVars>>

(***************************************************************************)
(* Specification of the Metadata Store: any sequence of route and          *)
(* middleware declarations on one controller class, the same method        *)
(* decorated more than once included                                       *)
(***************************************************************************)
\* the paths and the methods that Put, Delete, Patch, Options and Head decorate
DeclarePaths == { <<>>, <<"/", "b">> }

DeclareNames == {1, 2}

Put == \E path \in DeclarePaths, name \in DeclareNames : createMappingDecorator("put", path, name)

Delete == \E path \in DeclarePaths, name \in DeclareNames : createMappingDecorator("delete", path, name)

Patch == \E path \in DeclarePaths, name \in DeclareNames : createMappingDecorator("patch", path, name)

Options == \E path \in DeclarePaths, name \in DeclareNames : createMappingDecorator("options", path, name)

Head_ == \E path \in DeclarePaths, name \in DeclareNames : createMappingDecorator("head", path, name)

\* the number of declarations applied so far
Declarations ==
    Len(routes) + Len(classMiddlewares) + Len(methodMiddlewares[1]) + Len(methodMiddlewares[2])

WithinBudget == Declarations < MaxDeclarations

InitDeclare == PathsIdle /\ ArgsIdle /\ LibIdle /\ FilterIdle /\ EngineIdle

NextDeclare ==
    \/ (WithinBudget /\ Get)
    \/ (WithinBudget /\ Post)
    \/ (WithinBudget /\ Put)
    \/ (WithinBudget /\ Delete)
    \/ (WithinBudget /\ Patch)
    \/ (WithinBudget /\ Options)
    \/ (WithinBudget /\ Head_)
    \/ (WithinBudget /\ \E m \in MiddlewareClasses : UseMiddlewareOnClass(m))
    \/ (WithinBudget /\ \E n \in DeclareNames, m \in MiddlewareClasses : UseMiddlewareOnMethod(n, m))

SpecDeclare == InitDeclare /\ [][NextDeclare]_vars

(***************************************************************************)
(* Serving a request: the wrappers of createExpressMiddleware and          *)
(* createRouteHandler, run by the transport's route dispatch               *)
(*                                                                         *)
(* A wrapper runs synchronously until it awaits; next() called inside a    *)
(* wrapper runs the following wrapper of the route on top of it. The code  *)
(* of a middleware's use and of a handler method is a script of steps:     *)
(*   "await"  suspend on an awaitable that later resolves                  *)
(*   "send"   res.status(code).json(body)                                  *)
(*   "sendError"     an interceptor's res.status(500).json(errorResponse)  *)
(*   "next"   call next()                                                  *)
(*   "throw"  throw, or reject the returned promise                        *)
(*   "ctorThrow"     the middleware's constructor throws                   *)
(*   "extractThrow"  extractMethodArguments throws                         *)
(*   "retVal", "retUndef"  the handler returns a value, or undefined       *)
(*   "epilogue"      lines 105-107 of createRouteHandler                   *)
(***************************************************************************)
Tokens == {"none", "invalid", "valid"}

\* what use may do by its contract: proceed, short-circuit, or throw/reject,
\* at once or after suspending
ContractScripts ==
    { <<"next">>, <<"await", "next">>, <<"send">>, <<"await", "send">>,
      <<"throw">>, <<"await", "throw">> }

\* an AuthMiddleware that calls next() after answering 401
AuthMiddlewareUse_SendAndProceed(token) ==
    IF token = "none" \/ token = "invalid" THEN <<"send", "next">> ELSE <<"next">>

\* AuthMiddleware.use: 401 for a missing or invalid token, else next()
AuthMiddlewareUse(token) ==
    IF token = "none" \/ token = "invalid" THEN <<"send">> ELSE <<"next">>

\* RolesGuard.canActivate: 401 and false without req.user; 403 and false when
\* the user holds none of the required roles, which is the case of the user
\* that AuthMiddleware sets (it has no roles)
canActivate(user) ==
    IF ~user THEN [allowed |-> FALSE, statusCode |-> 401]
    ELSE [allowed |-> FALSE, statusCode |-> 403]

\* the scripts of the wrapper that createExpressMiddleware builds for a class:
\* new middlewareClass(), then use(req, res, next) if the instance has one,
\* else next()
createExpressMiddleware(class, token) ==
    IF class \in GuardClasses THEN { <<"next">> }
    ELSE IF class = "LoggingMiddleware" THEN { <<"next">> }
    ELSE IF class = "AuthMiddleware" THEN { AuthMiddlewareUse(token) }
    ELSE ContractScripts \cup { <<"ctorThrow">> }

\* what a handler method may do by itself: return or resolve to a value or to
\* undefined, send the response itself, throw or reject, also after sending
DirectBodies ==
    { <<"retVal">>, <<"await", "retVal">>, <<"retUndef">>,
      <<"send", "retUndef">>, <<"send", "retVal">>, <<"await", "send", "retUndef">>,
      <<"throw">>, <<"await", "throw">>, <<"send", "throw">> }

\* ResponseTransformInterceptor.intercept(req, res, next, handler) around a
\* body: when the body throws, the catch block sends the error response and
\* rethrows; when the body has sent the response, its result is returned; else
\* the transformed result is sent and returned
intercept(body) ==
    IF Last(body) = "throw" THEN Front(body) \o <<"sendError", "throw">>
    ELSE IF \E k \in 1..Len(body) : body[k] = "send" THEN body
    ELSE Front(body) \o <<"send", "retVal">>

\* a handler method runs its body, or runs it through the interceptor
HandlerBodies == DirectBodies \cup { intercept(body) : body \in DirectBodies }

\* the scripts of the wrapper that createRouteHandler builds: extract the
\* arguments, await the method, then the epilogue
createRouteHandler ==
    { <<"extractThrow">> } \cup { body \o <<"await", "epilogue">> : body \in HandlerBodies }

\* a middleware wrapper that constructs the instance before its try block
TryScopeMiddleware_ConstructorOutside == {"use"}

\* statements inside the try block of each wrapper
TryScopeMiddleware == {"constructor", "use"}

TryScopeHandler == {"extraction", "handler", "json"}

IdleFrame == [st |-> "idle", ops |-> <<>>]

\* the number of middleware bound before the handler of the request's route
ChainLen(q) == Len(router[q.layer].middlewares)

HeadersSent(q) == q.res.writes > 0

\* the status a direct write carries: AuthMiddleware 401, another middleware
\* 403, a handler 200
SendStatus(q, i) ==
    IF i > ChainLen(q) THEN 200
    ELSE IF router[q.layer].middlewares[i] = "AuthMiddleware" THEN 401 ELSE 403

\* a handler that constructs its controller when it is called
HandlerReceiver_PerRequest(layer) == <<"controller", 0>>

\* line 103: the method is called on the instance the handler closes over
HandlerReceiver(layer) == layer.instance

\* the route's dispatch calls layer i of its stack with script s
StartFrame(q, i, s) ==
    [q EXCEPT
        !.receiver = IF i > ChainLen(q) /\ s # <<"extractThrow">>
                     THEN HandlerReceiver(router[q.layer]) ELSE q.receiver,
        !.frames[i] = [st |-> "run", ops |-> s],
        !.idx = i + 1,
        !.started = IF i <= ChainLen(q)
                    THEN Append(q.started, router[q.layer].middlewares[i])
                    ELSE q.started,
        !.handlerCalls = IF i > ChainLen(q) /\ s # <<"extractThrow">>
                         THEN q.handlerCalls + 1 ELSE q.handlerCalls]

ScriptsFor(q, i) ==
    IF i <= ChainLen(q)
    THEN createExpressMiddleware(router[q.layer].middlewares[i], q.token)
    ELSE createRouteHandler

\* next(error) of the route: every remaining layer is skipped and the error
\* leaves the route for the error layer
ForwardError(q, origin) ==
    [q EXCEPT !.forwarded = Append(q.forwarded, origin),
              !.idx = ChainLen(q) + 2]

\* a throw at origin in a wrapper: caught and forwarded if the statement is
\* inside the wrapper's try block, an unhandled rejection otherwise
Thrown(q, i, origin) ==
    LET scope == IF i <= ChainLen(q) THEN TryScopeMiddleware ELSE TryScopeHandler
        q1 == [q EXCEPT !.frames[i] = [st |-> "done", ops |-> <<>>],
                        !.thrown = q.thrown + 1]
    IN  IF origin \in scope THEN ForwardError(q1, origin)
        ELSE [q1 EXCEPT !.unhandled = q.unhandled + 1]

\* an epilogue that does not test res.headersSent
AutoJsonGuard_NoHeadersSentTest(q) == q.result # "undefined"

\* the condition of line 105
AutoJsonGuard(q) == ~HeadersSent(q) /\ q.result # "undefined"

TopReq == Head(running)[1]

TopLayer == Head(running)[2]

TopOps == requests[TopReq].frames[TopLayer].ops

TopOp == IF TopOps = <<>> THEN "return" ELSE Head(TopOps)

\* the top wrapper moves past its current step
Advance(q, i) == [q EXCEPT !.frames[i].ops = Tail(q.frames[i].ops)]

\* the URL of the requests served: GET /a/b, for the route "/:a" under "/a"
ServeUrl == <<"/", "a", "/", "b">>

\* a request arrives while nothing runs: the router picks its layer and the
\* route's dispatch calls the first wrapper
Arrive(r) ==
    /\ running = <<>>
    /\ router # <<>>
    /\ requests[r].phase = "new"
    /\ \E token \in Tokens :
          LET route == RouteRequest(router, "get", ServeUrl)
              q0 == [NoReq EXCEPT
                        !.phase = "open", !.token = token, !.layer = route.layer,
                        !.frames = [i \in 1..(Len(router[route.layer].middlewares) + 1)
                                       |-> IdleFrame]]
          IN  /\ route.layer # 0
              /\ \E s \in ScriptsFor(q0, 1) :
                    requests' = [requests EXCEPT ![r] = StartFrame(q0, 1, s)]
              /\ running' = << <<r, 1>> >>
    /\ UNCHANGED <<metaVars, router, dispatched, pathVars, guardVars, argVars, filterVars, bootVars, libVars>>

\* await: the wrapper leaves the call stack until its awaitable resolves
Await ==
    /\ running # <<>>
    /\ TopOp = "await"
    /\ requests' = [requests EXCEPT
          ![TopReq] = [Advance(@, TopLayer) EXCEPT !.frames[TopLayer].st = "wait"]]
    /\ running' = Tail(running)
    /\ UNCHANGED <<metaVars, router, dispatched, pathVars, guardVars, argVars, filterVars, bootVars, libVars>>

\* the awaitable of a suspended wrapper resolves and the wrapper continues
Resume(r, i) ==
    /\ running = <<>>
    /\ requests[r].phase = "open"
    /\ i \in 1..Len(requests[r].frames)
    /\ requests[r].frames[i].st = "wait"
    /\ requests' = [requests EXCEPT ![r].frames[i].st = "run"]
    /\ running' = << <<r, i>> >>
    /\ UNCHANGED <<metaVars, router, dispatched, pathVars, guardVars, argVars, filterVars, bootVars, libVars>>

\* res.status(code).json(body) in a middleware or a handler; it throws when
\* the headers are already sent
Send ==
    /\ running # <<>>
    /\ TopOp \in {"send", "sendError"}
    /\ LET q == requests[TopReq]
           i == TopLayer
       IN  IF HeadersSent(q)
           THEN /\ requests' = [requests EXCEPT ![TopReq] =
                       Thrown(q, i, IF i <= ChainLen(q) THEN "use" ELSE "handler")]
                /\ running' = Tail(running)
           ELSE /\ requests' = [requests EXCEPT ![TopReq] =
                       [Advance(q, i) EXCEPT
                           !.res = StatusJson(q.res,
                                              IF TopOp = "sendError" THEN 500
                                              ELSE SendStatus(q, i),
                                              Str("direct")),
                           !.writer = i,
                           !.manualSend = (i > ChainLen(q))]]
                /\ UNCHANGED running
    /\ UNCHANGED <<metaVars, router, dispatched, pathVars, guardVars, argVars, filterVars, bootVars, libVars>>

\* next() without an error: the route's dispatch calls its next layer, on top
\* of the caller; past the last layer the request leaves the route
Proceed ==
    /\ running # <<>>
    /\ TopOp = "next"
    /\ LET q == [Advance(requests[TopReq], TopLayer) EXCEPT
                    !.user = @ \/ (/\ TopLayer <= ChainLen(requests[TopReq])
                                   /\ router[requests[TopReq].layer].middlewares[TopLayer]
                                          = "AuthMiddleware")]
       IN  IF q.idx <= ChainLen(q) + 1
           THEN /\ \E s \in ScriptsFor(q, q.idx) :
                      requests' = [requests EXCEPT ![TopReq] = StartFrame(q, q.idx, s)]
                /\ running' = << <<TopReq, q.idx>> >> \o running
           ELSE /\ requests' = [requests EXCEPT ![TopReq] = q]
                /\ UNCHANGED running
    /\ UNCHANGED <<metaVars, router, dispatched, pathVars, guardVars, argVars, filterVars, bootVars, libVars>>

\* a catch block that reports the error to every request in flight
Throw_AllInFlight ==
    /\ running # <<>>
    /\ TopOp \in {"throw", "ctorThrow", "extractThrow"}
    /\ LET q == requests[TopReq]
           origin == IF TopOp = "ctorThrow" THEN "constructor"
                     ELSE IF TopOp = "extractThrow" THEN "extraction"
                     ELSE IF TopLayer <= ChainLen(q) THEN "use" ELSE "handler"
       IN  requests' = [o \in Reqs |->
                          IF o = TopReq THEN Thrown(q, TopLayer, origin)
                          ELSE IF requests[o].phase = "open"
                               THEN ForwardError(requests[o], origin)
                               ELSE requests[o]]
    /\ running' = Tail(running)
    /\ UNCHANGED <<metaVars, router, dispatched, pathVars, guardVars, argVars, filterVars, bootVars, libVars>>

\* a throw or a rejection in the top wrapper
Throw ==
    /\ running # <<>>
    /\ TopOp \in {"throw", "ctorThrow", "extractThrow"}
    /\ LET q == requests[TopReq]
           origin == IF TopOp = "ctorThrow" THEN "constructor"
                     ELSE IF TopOp = "extractThrow" THEN "extraction"
                     ELSE IF TopLayer <= ChainLen(q) THEN "use" ELSE "handler"
       IN  requests' = [requests EXCEPT ![TopReq] = Thrown(q, TopLayer, origin)]
    /\ running' = Tail(running)
    /\ UNCHANGED <<metaVars, router, dispatched, pathVars, guardVars, argVars, filterVars, bootVars, libVars>>

\* the handler method returns, or resolves to, its result
Return ==
    /\ running # <<>>
    /\ TopOp \in {"retVal", "retUndef"}
    /\ requests' = [requests EXCEPT ![TopReq] =
          [Advance(@, TopLayer) EXCEPT
              !.result = IF TopOp = "retVal" THEN "v" ELSE "undefined"]]
    /\ UNCHANGED running
    /\ UNCHANGED <<metaVars, router, dispatched, pathVars, guardVars, argVars, filterVars, bootVars, libVars>>

\* lines 105-107: if (!res.headersSent && result !== undefined) res.json(result)
Epilogue ==
    /\ running # <<>>
    /\ TopOp = "epilogue"
    /\ LET q == requests[TopReq]
           done == [q EXCEPT !.frames[TopLayer] = [st |-> "done", ops |-> <<>>]]
       IN  requests' = [requests EXCEPT ![TopReq] =
              IF ~AutoJsonGuard(q) THEN done
              ELSE IF HeadersSent(q)
              THEN Thrown([q EXCEPT !.engineJson = q.engineJson + 1], TopLayer, "json")
              ELSE [done EXCEPT
                       !.res = StatusJson(q.res, q.res.statusCode, Str(q.result)),
                       !.engineJson = q.engineJson + 1]]
    /\ running' = Tail(running)
    /\ UNCHANGED <<metaVars, router, dispatched, pathVars, guardVars, argVars, filterVars, bootVars, libVars>>

\* use returns: the wrapper is finished
Finish ==
    /\ running # <<>>
    /\ TopOp = "return"
    /\ requests' = [requests EXCEPT ![TopReq].frames[TopLayer].st = "done"]
    /\ running' = Tail(running)
    /\ UNCHANGED <<metaVars, router, dispatched, pathVars, guardVars, argVars, filterVars, bootVars, libVars>>

(***************************************************************************)
(* Specification of the pipeline: the controller of the integration tests  *)
(* (one route GET "/:a" under the prefix "/a") gets its middleware         *)
(* declared, is registered, and serves interleaved requests                *)
(***************************************************************************)
Init ==
    /\ PathsIdle /\ ArgsIdle /\ LibIdle /\ FilterIdle
    /\ routes = << [path |-> <<"/", ":", "a">>, method |-> "get", methodName |-> 1] >>
    /\ controllerPrefix = <<"/", "a">>
    /\ classMiddlewares = <<>>
    /\ methodMiddlewares = [m \in MethodNames |-> <<>>]
    /\ router = <<>> /\ dispatched = NoDispatch /\ routerRefs = <<>>
    /\ guardCall = NoGuardCall
    /\ requests = [r \in Reqs |-> NoReq] /\ running = <<>>

Next ==
    \/ \E m \in MiddlewareClasses : UseMiddlewareOnClass(m)
    \/ \E m \in MiddlewareClasses : UseMiddlewareOnMethod(1, m)
    \/ RegisterController(<<>>)
    \/ \E r \in Reqs : Arrive(r)
    \/ Await
    \/ \E r \in Reqs, i \in 1..(MaxClassMiddlewares + MaxMethodMiddlewares + 1) : Resume(r, i)
    \/ Send
    \/ Proceed
    \/ Throw
    \/ Return
    \/ Epilogue
    \/ Finish

Spec == Init /\ [][Next]_vars

(***************************************************************************)
(* Specification of the pipeline with its scheduling: the same controller  *)
(* with one middleware or none is registered and serves the requests.      *)
(* JavaScript runs the wrapper on the call stack to its next suspension    *)
(* point, so the synchronous steps are taken as long as they are enabled.  *)
(* The awaitables of the request Steady resolve; those of the other        *)
(* requests may stay pending forever.                                      *)
(***************************************************************************)
Steady == NumRequests

InitLive ==
    /\ PathsIdle /\ ArgsIdle /\ LibIdle /\ FilterIdle
    /\ routes = << [path |-> <<"/", ":", "a">>, method |-> "get", methodName |-> 1] >>
    /\ controllerPrefix = <<"/", "a">>
    /\ classMiddlewares \in {<<>>, <<"CustomMiddleware">>}
    /\ methodMiddlewares = [m \in MethodNames |-> <<>>]
    /\ router = <<>> /\ dispatched = NoDispatch /\ routerRefs = <<>>
    /\ guardCall = NoGuardCall
    /\ requests = [r \in Reqs |-> NoReq] /\ running = <<>>

\* the steps of the wrapper on the call stack
RunToSuspension == Await \/ Send \/ Proceed \/ Throw \/ Return \/ Epilogue \/ Finish

NextLive ==
    \/ RegisterController(<<>>)
    \/ \E r \in Reqs : Arrive(r)
    \/ Await
    \/ \E r \in Reqs, i \in 1..(MaxClassMiddlewares + MaxMethodMiddlewares + 1) : Resume(r, i)
    \/ Send
    \/ Proceed
    \/ Throw
    \/ Return
    \/ Epilogue
    \/ Finish

SpecLive ==
    /\ InitLive /\ [][NextLive]_vars
    /\ WF_vars(RunToSuspension)
    /\ \A i \in 1..(MaxClassMiddlewares + MaxMethodMiddlewares + 1) : WF_vars(Resume(Steady, i))

(***************************************************************************)
(* Specification of the application: AnxietyApplication.init mounts the    *)
(* router and then the error handling middleware of setupErrorHandling,    *)
(* which answers the errors that the wrappers forward with next(error)     *)
(***************************************************************************)
\* setupErrorHandling lines 92-99 for a request of the router: it calls
\* res.status(500).json(...) whatever was sent before; json throws when the
\* headers are already sent
ErrorHandlingLayer(r) ==
    /\ requests[r].phase = "open"
    /\ requests[r].forwarded # <<>>
    /\ requests[r].errorLayer = "idle"
    /\ LET q == requests[r]
       IN  requests' = [requests EXCEPT ![r] =
              IF HeadersSent(q)
              THEN [q EXCEPT !.errorLayer = "rejected"]
              ELSE [q EXCEPT !.errorLayer = "answered",
                             !.res = StatusJson(q.res, 500, Str("error"))]]
    /\ UNCHANGED running
    /\ UNCHANGED <<metaVars, router, dispatched, pathVars, guardVars, argVars, filterVars, bootVars, libVars>>

InitApp == InitLive

NextApp ==
    \/ RegisterController(<<>>)
    \/ \E r \in Reqs : Arrive(r)
    \/ Await
    \/ \E r \in Reqs, i \in 1..(MaxClassMiddlewares + MaxMethodMiddlewares + 1) : Resume(r, i)
    \/ Send
    \/ Proceed
    \/ Throw
    \/ Return
    \/ Epilogue
    \/ Finish
    \/ \E r \in Reqs : ErrorHandlingLayer(r)

SpecApp == InitApp /\ [][NextApp]_vars

(***************************************************************************)
(* Specification of route registration and matching: a controller          *)
(* declares its routes, is registered once, and requests are routed        *)
(***************************************************************************)
InitRoutes ==
    /\ PathsIdle /\ ArgsIdle /\ LibIdle /\ FilterIdle
    /\ routes = <<>>
    /\ controllerPrefix \in ControllerPrefixes
    /\ classMiddlewares = <<>>
    /\ methodMiddlewares = [m \in MethodNames |-> <<>>]
    /\ router = <<>> /\ dispatched = NoDispatch /\ routerRefs = <<>>
    /\ guardCall = NoGuardCall
    /\ requests = [r \in Reqs |-> NoReq] /\ running = <<>>

NextRoutes ==
    \/ Get
    \/ Post
    \/ \E basePath \in BasePaths : RegisterController(basePath)
    \/ Dispatch

SpecRoutes == InitRoutes /\ [][NextRoutes]_vars

(***************************************************************************)
(* Specification of boot: a controller's routes are declared, the          *)
(* controller is registered, possibly more than once, and router           *)
(* references are taken with getRouter before, between and after the       *)
(* registrations                                                           *)
(***************************************************************************)
\* the Router() that the field initialiser of RouterEngine creates
EngineRouter == <<"router", 1>>

\* a getRouter that builds a new router from the layers bound so far
getRouter_Rebuild ==
    [id |-> <<"router", Len(routerRefs) + 2>>, layers |-> router, boundThen |-> Len(router)]

\* getRouter(): return this.router. A reference is the identity of a router
\* object; layers are the layers of an object other than the engine's own
\* router, and boundThen the number of layers bound when it was returned
getRouter ==
    [id |-> EngineRouter, layers |-> <<>>, boundThen |-> Len(router)]

\* the layers that a request entering through the reference is matched against
RouterOf(ref) == IF ref.id = EngineRouter THEN router ELSE ref.layers

\* a caller takes the router, for instance to mount it on an application
GetRouter ==
    /\ Len(routerRefs) < MaxRefs
    /\ routerRefs' = Append(routerRefs, getRouter)
    /\ UNCHANGED <<metaVars, router, dispatched, serveVars, pathVars, guardVars, argVars, filterVars, libVars>>

\* registerController called again for the controller class
RegisterControllerAgain(basePath) ==
    /\ router # <<>>
    /\ Cardinality(ControllerInstances) < MaxRegistrations
    /\ registerController(basePath)

InitBoot ==
    /\ PathsIdle /\ ArgsIdle /\ LibIdle /\ FilterIdle
    /\ routes = <<>>
    /\ controllerPrefix = <<"/", "a">>
    /\ classMiddlewares = <<>>
    /\ methodMiddlewares = [m \in MethodNames |-> <<>>]
    /\ router = <<>> /\ dispatched = NoDispatch /\ routerRefs = <<>>
    /\ guardCall = NoGuardCall
    /\ requests = [r \in Reqs |-> NoReq] /\ running = <<>>

NextBoot ==
    \/ Get
    \/ RegisterController(<<>>)
    \/ RegisterControllerAgain(<<>>)
    \/ GetRouter

SpecBoot == InitBoot /\ [][NextBoot]_vars

(***************************************************************************)
(* The metadata of a class hierarchy. Reflect.getMetadata looks a key up   *)
(* on the target and then along its prototype chain, and returns the array *)
(* object that is stored, not a copy; Reflect.defineMetadata stores on the *)
(* target itself. An array is an index into reflect.heap, so that two      *)
(* classes holding the same array object hold the same index. Every class  *)
(* has one handler method, "m", which ChildController overrides.           *)
(***************************************************************************)
NoClass == "none"

\* the class whose constructor, and whose prototype, is next on the chain
Parent(class) == IF class = "ChildController" THEN "BaseController" ELSE NoClass

\* a lookup that stops at the target's own metadata
getMetadata_OwnOnly(own, class) == own[class]

\* Reflect.getMetadata(key, target): own metadata first, then the chain; 0 when
\* there is none, which the decorators replace by a new empty array
RECURSIVE getMetadata(_, _)
getMetadata(own, class) ==
    IF own[class] # 0 THEN own[class]
    ELSE IF Parent(class) = NoClass THEN 0
    ELSE getMetadata(own, Parent(class))

\* Reflect.getMetadata(key, target) || []
StoredList(rf, own, class) ==
    IF getMetadata(own, class) = 0 THEN <<>> ELSE rf.heap[getMetadata(own, class)]

HierarchyDeclarations(rf) ==
    LET RECURSIVE Sum(_)
        Sum(k) == IF k = 0 THEN 0 ELSE Len(rf.heap[k]) + Sum(k - 1)
    IN  Sum(Len(rf.heap))

\* existing = Reflect.getMetadata(...) || []; existing.push(entry);
\* Reflect.defineMetadata(..., existing, target)
PushAndDefine(rf, kind, class, entry) ==
    LET own == IF kind = "routes" THEN rf.routes ELSE rf.params
        found == getMetadata(own, class)
        id == IF found = 0 THEN Len(rf.heap) + 1 ELSE found
        heap == IF found = 0 THEN Append(rf.heap, <<entry>>)
                ELSE [rf.heap EXCEPT ![found] = Append(@, entry)]
    IN  IF kind = "routes"
        THEN [rf EXCEPT !.heap = heap, !.routes[class] = id, !.last = class]
        ELSE [rf EXCEPT !.heap = heap, !.params[class] = id, !.last = class]

\* the decorators of a class run when the class is defined, and a class is
\* defined before the classes that extend it
MayDeclareOn(class) ==
    /\ HierarchyDeclarations(reflect) < MaxHierarchyDeclarations
    /\ reflect.bound = <<>>
    /\ \A sub \in Classes :
          Parent(sub) = class => reflect.routes[sub] = 0 /\ reflect.params[sub] = 0

\* a route decorator on method m of the class
DeclareRouteOn(class) ==
    /\ MayDeclareOn(class)
    /\ reflect' = PushAndDefine(reflect, "routes", class,
                                [declaredOn |-> class,
                                 nth |-> HierarchyDeclarations(reflect) + 1])
    /\ UNCHANGED <<cache, database, pipe, pathVars, argVars, filterVars, engineVars>>

\* a parameter decorator on method m of the class
DeclareParamOn(class) ==
    /\ MayDeclareOn(class)
    /\ reflect' = PushAndDefine(reflect, "params", class,
                                [declaredOn |-> class,
                                 nth |-> HierarchyDeclarations(reflect) + 1])
    /\ UNCHANGED <<cache, database, pipe, pathVars, argVars, filterVars, engineVars>>

\* registerController(class): the routes bound are those that
\* Reflect.getMetadata(ROUTES_METADATA, class) returns
RegisterClass(class) ==
    /\ \A k \in 1..Len(reflect.bound) : reflect.bound[k].class # class
    /\ reflect' = [reflect EXCEPT
          !.bound = Append(@, [class |-> class,
                               routes |-> StoredList(reflect, reflect.routes, class)]),
          !.last = "none"]
    /\ UNCHANGED <<cache, database, pipe, pathVars, argVars, filterVars, engineVars>>

InitReflect ==
    /\ PathsIdle /\ ArgsIdle /\ FilterIdle /\ EngineIdle
    /\ reflect = NoReflect /\ cache = NoCache /\ database = NoDatabase /\ pipe = NoPipe

NextReflect ==
    \/ \E class \in Classes : DeclareRouteOn(class)
    \/ \E class \in Classes : DeclareParamOn(class)
    \/ \E class \in Classes : RegisterClass(class)

SpecReflect == InitReflect /\ [][NextReflect]_vars

(***************************************************************************)
(* CacheInterceptor. The Map is a sequence of entries in insertion order;  *)
(* every lookup and store gets the next number of cache.ops, so that the   *)
(* order of uses is known: an entry records when it was stored and when it *)
(* was last served by a hit. The handler is awaited between the lookup     *)
(* that misses and the store, so other calls interleave there.             *)
(***************************************************************************)
\* the keys a key generator returns; the empty string is one of them
CacheKeys == {<<>>, <<"a">>, <<"b">>, <<"c">>}

KeyIndex(entries, key) ==
    LET hits == {k \in 1..Len(entries) : entries[k].key = key}
    IN  IF hits = {} THEN 0 ELSE CHOOSE k \in hits : TRUE

\* Map.delete(key)
MapDelete(entries, key) == SelectSeq(entries, LAMBDA e : e.key # key)

\* Map.set(key, entry): a present key keeps its place in the iteration order
MapSet(entries, entry) ==
    IF KeyIndex(entries, entry.key) = 0 THEN Append(entries, entry)
    ELSE [entries EXCEPT ![KeyIndex(entries, entry.key)] = entry]

\* line 131: Date.now() > entry.timestamp + entry.ttl
Expired(entry, now) == now > entry.timestamp + entry.ttl

\* a JavaScript string is falsy exactly when it is empty
Truthy(key) == key # <<>>

\* setCachedEntry(key, data) on cache c
setCachedEntry(c, key) ==
    LET full     == Len(c.entries) >= c.maxSize
        firstKey == IF c.entries = <<>> THEN <<"undefined">> ELSE c.entries[1].key
        evicts   == full /\ c.entries # <<>> /\ Truthy(firstKey)
        kept     == IF evicts THEN MapDelete(c.entries, firstKey) ELSE c.entries
        entry    == [key |-> key, timestamp |-> c.now, ttl |-> c.ttl,
                     stored |-> c.ops + 1, hit |-> 0]
    IN  [c EXCEPT !.entries = MapSet(kept, entry),
                  !.evicted = IF evicts THEN <<firstKey>> ELSE <<>>,
                  !.ops = c.ops + 1]

\* intercept up to the handler: a valid entry is served; an expired one is
\* deleted by getCachedEntry; then, as for an absent one, the handler is awaited
InterceptLookup(key) ==
    /\ cache.ops < MaxCacheOps
    /\ LET k == KeyIndex(cache.entries, key) IN
       cache' =
          IF k # 0 /\ ~Expired(cache.entries[k], cache.now)
          THEN [cache EXCEPT !.entries[k].hit = cache.ops + 1, !.ops = cache.ops + 1,
                             !.evicted = <<>>]
          ELSE [cache EXCEPT !.entries = MapDelete(cache.entries, key),
                             !.pending = cache.pending \cup {key},
                             !.ops = cache.ops + 1, !.evicted = <<>>]
    /\ UNCHANGED <<reflect, database, pipe, pathVars, argVars, filterVars, engineVars>>

\* intercept after the handler: the result is stored, unless the response was
\* sent or its status is excluded
InterceptStore(key, cacheable) ==
    /\ key \in cache.pending
    /\ cache.ops < MaxCacheOps
    /\ cache' = IF cacheable
                THEN [setCachedEntry(cache, key) EXCEPT !.pending = cache.pending \ {key}]
                ELSE [cache EXCEPT !.pending = cache.pending \ {key}, !.evicted = <<>>,
                                   !.ops = cache.ops + 1]
    /\ UNCHANGED <<reflect, database, pipe, pathVars, argVars, filterVars, engineVars>>

\* the timer of the constructor: cleanupExpiredEntries
CleanupExpiredEntries ==
    /\ \E k \in 1..Len(cache.entries) : Expired(cache.entries[k], cache.now)
    /\ cache' = [cache EXCEPT
          !.entries = SelectSeq(cache.entries, LAMBDA e : ~Expired(e, cache.now)),
          !.evicted = <<>>]
    /\ UNCHANGED <<reflect, database, pipe, pathVars, argVars, filterVars, engineVars>>

\* time passes
Tick ==
    /\ cache.now < MaxClock + 1
    /\ cache' = [cache EXCEPT !.now = cache.now + 1, !.evicted = <<>>]
    /\ UNCHANGED <<reflect, database, pipe, pathVars, argVars, filterVars, engineVars>>

InitCache ==
    /\ PathsIdle /\ ArgsIdle /\ FilterIdle /\ EngineIdle
    /\ reflect = NoReflect /\ database = NoDatabase /\ pipe = NoPipe
    /\ cache \in [maxSize : 0..MaxCacheSize, ttl : 1..MaxClock, now : {0}, ops : {0},
                  entries : {<<>>}, pending : {{}}, evicted : {<<>>}]

NextCache ==
    \/ \E key \in CacheKeys : InterceptLookup(key)
    \/ \E key \in CacheKeys, cacheable \in BOOLEAN : InterceptStore(key, cacheable)
    \/ CleanupExpiredEntries
    \/ Tick

SpecCache == InitCache /\ [][NextCache]_vars

(***************************************************************************)
(* DatabaseService: the connection flag of the data source, the calls that *)
(* reached the data source, and the outcome of the last service call.      *)
(* A message is the sequence of the literal fragments it is built from.    *)
(***************************************************************************)
NotConnected == <<"Database not connected">>

\* `${error}` of an Error: its name, a colon, its message
ErrorToString(message) == <<"Error: ">> \o message

\* an error raised by the data source itself
DriverError == <<"driver failure">>

\* String.prototype.includes on fragments
Includes(message, part) ==
    \E i \in 1..(Len(message) - Len(part) + 1) :
        SubSeq(message, i, i + Len(part) - 1) = part

\* DatabaseService.isConnected
isConnected(db) == db.isInitialized

Threw(db, op, message) ==
    [db EXCEPT !.calls = @ + 1,
               !.last = [op |-> op, outcome |-> "threw", message |-> message]]

Returned(db, op, target) ==
    [db EXCEPT !.calls = @ + 1,
               !.reached = Append(@, target),
               !.last = [op |-> op, outcome |-> "returned", message |-> <<>>]]

\* the try/catch of the asynchronous methods: the guard's error and the data
\* source's error both leave through the catch, which wraps them
Guarded(db, op, target, prefix, fails) ==
    IF ~db.isInitialized
    THEN Threw(db, op, <<prefix>> \o ErrorToString(NotConnected))
    ELSE IF fails
         THEN [Threw(db, op, <<prefix>> \o ErrorToString(DriverError))
                  EXCEPT !.reached = Append(@, target)]
         ELSE Returned(db, op, target)

query_Unguarded(db, fails) ==
    IF fails \/ ~db.isInitialized
    THEN [Threw(db, "query", <<"Failed to execute query: ">> \o ErrorToString(DriverError))
             EXCEPT !.reached = Append(@, "query")]
    ELSE Returned(db, "query", "query")

\* DatabaseService.getRepository: synchronous, its error is not wrapped
getRepository(db, fails) ==
    IF ~db.isInitialized
    THEN Threw(db, "getRepository", NotConnected \o <<". Call connect() first.">>)
    ELSE IF fails
         THEN [Threw(db, "getRepository", DriverError)
                  EXCEPT !.reached = Append(@, "getRepository")]
         ELSE Returned(db, "getRepository", "getRepository")

runMigrations(db, fails) ==
    Guarded(db, "runMigrations", "runMigrations", "Failed to run migrations: ", fails)

revertMigrations(db, fails) ==
    Guarded(db, "revertMigrations", "undoLastMigration", "Failed to revert migrations: ", fails)

query(db, fails) ==
    Guarded(db, "query", "query", "Failed to execute query: ", fails)

\* DatabaseService.connect: returns the data source when it is initialized,
\* otherwise initializes it
connect(db, fails) ==
    IF db.isInitialized
    THEN [db EXCEPT !.calls = @ + 1,
                    !.last = [op |-> "connect", outcome |-> "returned", message |-> <<>>]]
    ELSE IF fails
         THEN [Threw(db, "connect", <<"Failed to connect to database: ">> \o ErrorToString(DriverError))
                  EXCEPT !.reached = Append(@, "initialize")]
         ELSE [Returned(db, "connect", "initialize")
                  EXCEPT !.isInitialized = TRUE, !.everConnected = TRUE]

\* DatabaseService.disconnect: destroys the data source when it is initialized
disconnect(db) ==
    IF db.isInitialized
    THEN [Returned(db, "disconnect", "destroy") EXCEPT !.isInitialized = FALSE]
    ELSE [db EXCEPT !.calls = @ + 1,
                    !.last = [op |-> "disconnect", outcome |-> "returned", message |-> <<>>]]

DatabaseStep(next) ==
    /\ database.calls < MaxDatabaseCalls
    /\ database' = next
    /\ UNCHANGED <<reflect, cache, pipe, pathVars, argVars, filterVars, engineVars>>

Connect == \E fails \in BOOLEAN : DatabaseStep(connect(database, fails))
Disconnect == DatabaseStep(disconnect(database))
GetRepository == \E fails \in BOOLEAN : DatabaseStep(getRepository(database, fails))
RunMigrations == \E fails \in BOOLEAN : DatabaseStep(runMigrations(database, fails))
RevertMigrations == \E fails \in BOOLEAN : DatabaseStep(revertMigrations(database, fails))
CallQuery == \E fails \in BOOLEAN : DatabaseStep(query(database, fails))

InitDatabase ==
    /\ PathsIdle /\ ArgsIdle /\ FilterIdle /\ EngineIdle
    /\ reflect = NoReflect /\ cache = NoCache /\ pipe = NoPipe
    /\ database = NoDatabase

NextDatabase ==
    \/ Connect
    \/ Disconnect
    \/ GetRepository
    \/ RunMigrations
    \/ RevertMigrations
    \/ CallQuery

SpecDatabase == InitDatabase /\ [][NextDatabase]_vars

(***************************************************************************)
(* ValidationPipe over a schema of one string field: the field's rule, the *)
(* pipe's options, the field of the last object transformed and what       *)
(* transform did with it.  A number is kept as its decimal digits.         *)
(***************************************************************************)
UndefinedField == [type |-> "undefined", text |-> <<>>]

\* a JavaScript number is falsy when it is absent or zero
TruthyNumber(has, n) == has /\ n # 0

\* ValidationPipe.validateAndTransformType, case 'string'
validateAndTransformType(value, options) ==
    IF options.transform /\ value.type # "string"
    THEN [threw |-> FALSE, error |-> "none", value |-> [type |-> "string", text |-> value.text]]
    ELSE IF value.type # "string"
         THEN [threw |-> TRUE, error |-> "type", value |-> value]
         ELSE [threw |-> FALSE, error |-> "none", value |-> value]

\* the string validations of validateField
validateLength(value, rule) ==
    IF TruthyNumber(rule.hasMinLength, rule.minLength) /\ Len(value.text) < rule.minLength
    THEN [threw |-> TRUE, error |-> "minLength", value |-> value]
    ELSE IF TruthyNumber(rule.hasMaxLength, rule.maxLength) /\ Len(value.text) > rule.maxLength
         THEN [threw |-> TRUE, error |-> "maxLength", value |-> value]
         ELSE [threw |-> FALSE, error |-> "none", value |-> value]

\* ValidationPipe.validateField for a rule of type 'string'
validateField(value, rule, options) ==
    IF rule.required /\ (value.type = "undefined" \/ (value.type = "string" /\ value.text = <<>>))
    THEN [threw |-> TRUE, error |-> "required", value |-> value]
    ELSE IF value.type = "undefined"
         THEN [threw |-> FALSE, error |-> "none", value |-> UndefinedField]
         ELSE LET typed == validateAndTransformType(value, options)
              IN  IF typed.threw THEN typed ELSE validateLength(typed.value, rule)

\* ValidationPipe.transform on an object holding the one field
transform(p, value) ==
    LET validated == validateField(value, p.rule, p.options)
    IN  IF validated.threw
        THEN [p EXCEPT !.input = value, !.outcome = "threw",
                       !.error = validated.error, !.result = UndefinedField]
        ELSE [p EXCEPT !.input = value, !.outcome = "returned",
                       !.error = "none", !.result = validated.value]

FieldValues ==
    {UndefinedField}
        \cup ([type : {"string", "number"}, text : StringsUpTo({"1"}, MaxFieldLength)]
                  \ {[type |-> "number", text |-> <<>>]})

FieldRules ==
    {rule \in [required : BOOLEAN, hasMinLength : BOOLEAN, minLength : 0..MaxRuleLength,
               hasMaxLength : BOOLEAN, maxLength : 0..MaxRuleLength] :
        /\ ~rule.hasMinLength => rule.minLength = 0
        /\ ~rule.hasMaxLength => rule.maxLength = 0}

Transform(value) ==
    /\ pipe' = transform(pipe, value)
    /\ UNCHANGED <<reflect, cache, database, pathVars, argVars, filterVars, engineVars>>

InitPipe ==
    /\ PathsIdle /\ ArgsIdle /\ FilterIdle /\ EngineIdle
    /\ reflect = NoReflect /\ cache = NoCache /\ database = NoDatabase
    /\ \E rule \in FieldRules, tr \in BOOLEAN :
           pipe = [NoPipe EXCEPT !.rule = rule, !.options = [transform |-> tr]]

NextPipe == \E value \in FieldValues : Transform(value)

SpecPipe == InitPipe /\ [][NextPipe]_vars

(***************************************************************************)
(* Specification of combinePaths: every argument list, then the call       *)
(***************************************************************************)
\* a segment as it is written in a decorator or a configuration: no doubled "/"
Segments ==
    {s \in StringsUpTo(PathChars, MaxLen) :
        \A i \in 1..(Len(s) - 1) : ~(s[i] = "/" /\ s[i + 1] = "/")}

InitPaths ==
    /\ ArgsIdle /\ LibIdle /\ FilterIdle /\ EngineIdle
    /\ cpArgs \in Segments \X Segments \X Segments
    /\ cpResult = <<>>

CombinePaths ==
    /\ cpResult = <<>>
    /\ cpResult' = combinePaths(cpArgs)
    /\ UNCHANGED <<cpArgs, argVars, filterVars, engineVars, libVars>>

NextPaths == CombinePaths

SpecPaths == InitPaths /\ [][NextPaths]_vars

(***************************************************************************)
(* C5: combinePaths returns a path with exactly one leading "/", no        *)
(* trailing "/" unless it is "/", no doubled "/", and "/" when every       *)
(* segment is empty.                                                       *)
(***************************************************************************)
NormalizedPath(p) ==
    /\ Len(p) >= 1 /\ p[1] = "/"
    /\ (Len(p) > 1 => p[2] # "/")
    /\ (Len(p) > 1 => Last(p) # "/")
    /\ \A i \in 1..(Len(p) - 1) : ~(p[i] = "/" /\ p[i + 1] = "/")

C5_CombinePathsNormalized ==
    cpResult # <<>> =>
        /\ NormalizedPath(cpResult)
        /\ ((\A i \in 1..3 : cpArgs[i] = <<>>) => cpResult = <<"/">>)

(***************************************************************************)
(* C4: with pairwise distinct indices, the argument array holds at each    *)
(* descriptor's index the value of that descriptor's source, and undefined *)
(* at every index no descriptor names, whatever the registration order.    *)
(***************************************************************************)
\* args[i] read as JavaScript reads it: undefined past the end
ArgAt(arr, i) == IF i + 1 <= Len(arr) THEN arr[i + 1] ELSE Undefined

DistinctIndices(ps) ==
    \A j, k \in 1..Len(ps) : j # k => ps[j].index # ps[k].index

\* the value the claim names for each source
SourceValue(req, d) ==
    IF d.type = "param" THEN (IF d.key = NoKey THEN Ref("req.params") ELSE req.params[d.key])
    ELSE IF d.type = "query" THEN (IF d.key = NoKey THEN Ref("req.query") ELSE req.query[d.key])
    ELSE IF d.type = "body" THEN req.body
    ELSE IF d.type = "headers"
         THEN (IF d.key = NoKey THEN Ref("req.headers") ELSE req.headers[d.key])
    ELSE IF d.type = "request" THEN Ref("req")
    ELSE Ref("res")

C4_ArgumentsAtDeclaredIndices ==
    (args # NoArgs /\ DistinctIndices(paramMetadata)) =>
        /\ Len(args) <= MaxIndex + 1
        /\ \A i \in 0..MaxIndex :
              IF \E k \in 1..Len(paramMetadata) : paramMetadata[k].index = i
              THEN \A k \in 1..Len(paramMetadata) :
                      paramMetadata[k].index = i =>
                          ArgAt(args, i) = SourceValue(argReq, paramMetadata[k])
              ELSE ArgAt(args, i) = Undefined

\* Param('id') at 0, Query('include') at 1, Headers('user-agent') at 2 on
\* GET /api/test/123?include=details with user-agent X
C4_Witness ==
    /\ Len(paramMetadata) = 3
    /\ paramMetadata[1] = [index |-> 0, type |-> "param", key |-> "id"]
    /\ paramMetadata[2] = [index |-> 1, type |-> "query", key |-> "include"]
    /\ paramMetadata[3] = [index |-> 2, type |-> "headers", key |-> "user-agent"]
    /\ args = <<Str("123"), Str("details"), Str("X")>>

(***************************************************************************)
(* C9: catch chooses the status by a fixed classification of the thrown    *)
(* value: an HttpException keeps its status; SyntaxError 400, TypeError    *)
(* 400, ValidationError 400, UnauthorizedError 401, ForbiddenError 403,    *)
(* NotFoundError 404, and every other thrown value 500.                    *)
(***************************************************************************)
StatusOf(e) ==
    IF e.kind = "HttpException" THEN e.status
    ELSE IF e.kind \in {"SyntaxError", "TypeError"} THEN 400
    ELSE IF e.name = Str("ValidationError") THEN 400
    ELSE IF e.name = Str("UnauthorizedError") THEN 401
    ELSE IF e.name = Str("ForbiddenError") THEN 403
    ELSE IF e.name = Str("NotFoundError") THEN 404
    ELSE 500

C9_StatusByClassification ==
    filterPc \in {"returned", "threw"} =>
        /\ filterRes.writes >= 1
        /\ filterRes.statusCode = StatusOf(exception)

(***************************************************************************)
(* C10: for every thrown value, Error object or not, catch writes exactly  *)
(* one response and does not throw.                                        *)
(***************************************************************************)
C10_CatchAlwaysResponds ==
    filterPc \in {"returned", "threw"} =>
        /\ filterPc = "returned"
        /\ filterRes.writes = 1

(***************************************************************************)
(* C1: when a controller declares a static route S and a dynamic route D   *)
(* of the same method whose pattern also matches S's URL, in either        *)
(* declaration order, a request for S's full path goes to S's handler and  *)
(* never to D's. Of several declarations with S's method and full path     *)
(* the router serves the one bound first, so S is taken to be the first    *)
(* declared of them.                                                       *)
(***************************************************************************)
\* the layer that a declared route was bound as
LayerOf(route) == CHOOSE k \in 1..Len(router) : router[k].methodName = route.methodName

FirstOfItsPath(S) ==
    \A k \in 1..Len(routes) :
        (/\ routes[k].method = S.method
         /\ router[LayerOf(routes[k])].path = router[LayerOf(S)].path)
            => S.methodName <= routes[k].methodName

C1_StaticBeforeDynamic ==
    router # <<>> =>
        \A i, j \in 1..Len(routes) :
            LET S == routes[i]
                D == routes[j]
                url == router[LayerOf(S)].path
            IN  (/\ ~IsDynamic(S) /\ IsDynamic(D)
                 /\ S.method = D.method
                 /\ MatchPath(router[LayerOf(D)].path, url))
                => /\ RouteRequest(router, S.method, url).methodName # D.methodName
                   /\ (FirstOfItsPath(S) =>
                          RouteRequest(router, S.method, url).methodName = S.methodName)
                   /\ ((dispatched.url = url /\ dispatched.method = S.method) =>
                          /\ dispatched.methodName # D.methodName
                          /\ dispatched.params = <<>>)

\* "/:a" declared before "/b" under the prefix "/a", and GET /a/b answered by
\* the handler of "/b"
C1_Witness ==
    /\ router # <<>>
    /\ \E i, j \in 1..Len(routes) :
          /\ routes[i].path = <<"/", "b">> /\ routes[j].path = <<"/", ":", "a">>
          /\ routes[i].method = "get" /\ routes[j].method = "get"
          /\ routes[j].methodName < routes[i].methodName
          /\ dispatched.url = <<"/", "a", "/", "b">>
          /\ dispatched.method = "get"
          /\ dispatched.methodName = routes[i].methodName

\* the chain the Middleware Chain Composer promises for the request's route:
\* the class's entries in declaration order, then the method's
DeclaredChain(q) == classMiddlewares \o methodMiddlewares[router[q.layer].methodName]

HandlerLayer(q) == ChainLen(q) + 1

Served(r) == requests[r].phase = "open"

\* C2: for every request, whatever is interleaved with it, the middleware that
\* have begun are a prefix of class-level ++ method-level middleware in
\* declaration order, the handler is invoked at most once and only after all
\* of them have begun, and a step begins only after the step before it has
\* taken its decision (it is neither suspended nor has steps left)
C2_ChainOrder ==
    \A r \in Reqs :
        LET q == requests[r]
        IN  Served(r) =>
              /\ q.started = SubSeq(DeclaredChain(q), 1, Len(q.started))
              /\ q.handlerCalls <= 1
              /\ (q.handlerCalls = 1 => q.started = DeclaredChain(q))
              /\ \A j \in 2..Len(q.frames) :
                    q.frames[j].st # "idle" =>
                        /\ q.frames[j - 1].st \in {"run", "done"}
                        /\ q.frames[j - 1].ops = <<>>

\* a request ran A, B, C and its handler, with A, B and C three different
\* classes, while another request was suspended on an awaitable
C2_Witness ==
    \E r, o \in Reqs :
        /\ r # o /\ Served(r) /\ Served(o)
        /\ Len(classMiddlewares) = 2 /\ Len(methodMiddlewares[1]) = 1
        /\ Cardinality({classMiddlewares[1], classMiddlewares[2], methodMiddlewares[1][1]}) = 3
        /\ requests[r].handlerCalls = 1
        /\ \E i \in 1..Len(requests[o].frames) : requests[o].frames[i].st = "wait"

\* middleware layer i of the request wrote the response and returned without
\* calling next()
ShortCircuited(q, i) ==
    /\ i <= ChainLen(q)
    /\ q.writer = i
    /\ q.frames[i].st = "done"
    /\ q.idx = i + 1

\* C3: once a middleware has written a response and returned without calling
\* next(), no later middleware and no handler is invoked for that request and
\* nothing is forwarded to the error layer; and a request with a missing or
\* invalid token that reaches AuthMiddleware is answered 401 by it, once, and
\* its handler never runs
C3_ShortCircuit ==
    \A r \in Reqs :
        LET q == requests[r]
        IN  Served(r) =>
              /\ \A i \in 1..ChainLen(q) :
                    ShortCircuited(q, i) =>
                        /\ Len(q.started) = i
                        /\ \A j \in (i + 1)..Len(q.frames) : q.frames[j].st = "idle"
                        /\ q.handlerCalls = 0
                        /\ q.forwarded = <<>>
              /\ \A i \in 1..Len(q.started) :
                    (q.started[i] = "AuthMiddleware" /\ q.token \in {"none", "invalid"}) =>
                        /\ q.handlerCalls = 0
                        /\ Len(q.started) = i
                        /\ (q.frames[i].st = "done" =>
                               q.res = StatusJson(FreshResponse, 401, Str("direct")))

\* AuthMiddleware answered 401 to a request without a valid token, with a
\* middleware still after it in the chain
C3_Witness ==
    \E r \in Reqs :
        LET q == requests[r]
        IN  /\ Served(r)
            /\ \E i \in 1..(ChainLen(q) - 1) :
                  /\ ShortCircuited(q, i)
                  /\ router[q.layer].middlewares[i] = "AuthMiddleware"
            /\ q.res.statusCode = 401

\* the handler method of the request has returned or resolved and the
\* wrapper's epilogue has run
HandlerReturned(q) ==
    /\ q.result # "none"
    /\ q.frames[HandlerLayer(q)].st = "done"

\* C6: after the handler returned v: if the handler had sent the response
\* itself the engine attempts no write; otherwise a defined v is written by
\* the engine exactly once, as the body of the only response, with status
\* 200; and for v undefined the engine writes nothing
C6_AutoJson ==
    \A r \in Reqs :
        LET q == requests[r]
        IN  (Served(r) /\ HandlerReturned(q)) =>
              /\ q.manualSend => (q.engineJson = 0 /\ q.res.writes = 1)
              /\ (~q.manualSend /\ q.result = "v") =>
                    (q.engineJson = 1 /\ q.res = StatusJson(FreshResponse, 200, Str("v")))
              /\ q.result = "undefined" => q.engineJson = 0

\* one handler sent its response itself and then returned a value, and
\* another returned a value that the engine serialised
C6_Witness ==
    \E r, o \in Reqs :
        /\ Served(r) /\ HandlerReturned(requests[r])
        /\ requests[r].manualSend /\ requests[r].result = "v"
        /\ Served(o) /\ HandlerReturned(requests[o])
        /\ ~requests[o].manualSend /\ requests[o].engineJson = 1

GuardDenies403(q) ==
    \E i \in 1..Len(q.started) :
        /\ q.started[i] \in GuardClasses
        /\ ~canActivate(q.user).allowed
        /\ canActivate(q.user).statusCode = 403

\* C8: when a guard of the route denies a request with 403, the handler of
\* the route is not invoked for that request
C8_GuardBlocksHandler ==
    \A r \in Reqs :
        (Served(r) /\ GuardDenies403(requests[r])) => requests[r].handlerCalls = 0

(***************************************************************************)
(* C11: every error response written by a filter or by the application's   *)
(* error handling is a JSON body with a statusCode field equal to the HTTP  *)
(* status set on the response.                                             *)
(***************************************************************************)
C11_StatusCodeInBody ==
    (filterPc = "returned" /\ filterRes.writes >= 1) =>
        /\ "statusCode" \in DOMAIN filterRes.body
        /\ filterRes.body.statusCode = filterRes.statusCode

(***************************************************************************)
(* C12: what GlobalExceptionFilter discloses of an unclassified error       *)
(***************************************************************************)
ClassifiedNames ==
    {Str("ValidationError"), Str("UnauthorizedError"), Str("ForbiddenError"),
     Str("NotFoundError")}

\* a thrown value that no branch of the classification recognises
Unclassified(e) ==
    /\ e.kind \in {"Error", "object", "string"}
    /\ e.name \notin ClassifiedNames

\* C12 as stated: in production the response to an unclassified error has no
\* stack field and the message 'Internal server error'; otherwise it carries
\* the error's own message and its stack
C12_ProductionHidesInternals ==
    (filterPc = "returned" /\ exception.kind = "Error" /\ Unclassified(exception)) =>
        IF nodeEnv = "production"
        THEN /\ filterRes.body.stack = Absent
             /\ filterRes.body.message = Str("Internal server error")
        ELSE /\ filterRes.body.message = exception.message
             /\ filterRes.body.stack = exception.stack

\* C12 amended: in production the whole response to an unclassified value is
\* fixed by the request alone (status 500, generic error and message, no
\* stack), so it does not depend on the value's message or stack; otherwise
\* it carries the value's message if that is non-empty, else 'An unexpected
\* error occurred', and the value's stack if it has one
C12_ProductionHidesInternals_Amended ==
    (filterPc = "returned" /\ Unclassified(exception)) =>
        IF nodeEnv = "production"
        THEN filterRes = StatusJson(FreshResponse, 500,
                 [statusCode |-> 500,
                  timestamp  |-> Str("now"),
                  path       |-> filterReq.originalUrl,
                  method     |-> filterReq.method,
                  error      |-> Str("Internal Server Error"),
                  message    |-> Str("Internal server error"),
                  stack      |-> Absent,
                  requestId  |-> IF filterReq.requestId = Undefined THEN Absent
                                 ELSE filterReq.requestId])
        ELSE /\ filterRes.body.message =
                    (IF exception.message \in {Undefined, Str("")}
                     THEN Str("An unexpected error occurred") ELSE exception.message)
             /\ filterRes.body.stack =
                    (IF exception.stack = Undefined THEN Absent ELSE exception.stack)

\* in production the filter answered an Error that has a message and a stack
C12_Witness ==
    /\ filterPc = "returned" /\ nodeEnv = "production"
    /\ exception.kind = "Error" /\ Unclassified(exception)
    /\ exception.message = Str("boom") /\ exception.stack = Str("stack")
    /\ handledBy = "GlobalExceptionFilter"

(***************************************************************************)
(* C13: every declaration appends. A step that changes the class's route   *)
(* list appends exactly one {path, method, methodName} entry to it and     *)
(* leaves the middleware lists alone; a step that changes a middleware     *)
(* list appends to that list and leaves every other list alone; so no      *)
(* entry is ever removed, replaced, merged or deduplicated.                *)
(***************************************************************************)
AppendsTo(old, new, n) ==
    /\ Len(new) = Len(old) + n
    /\ SubSeq(new, 1, Len(old)) = old

C13_AppendOnly ==
    [][ /\ routes' # routes =>
              /\ AppendsTo(routes, routes', 1)
              /\ DOMAIN routes'[Len(routes')] = {"path", "method", "methodName"}
              /\ UNCHANGED <<classMiddlewares, methodMiddlewares>>
        /\ classMiddlewares' # classMiddlewares =>
              /\ AppendsTo(classMiddlewares, classMiddlewares', 1)
              /\ UNCHANGED <<routes, methodMiddlewares>>
        /\ methodMiddlewares' # methodMiddlewares =>
              /\ \E n \in MethodNames :
                    /\ AppendsTo(methodMiddlewares[n], methodMiddlewares'[n], 1)
                    /\ \A o \in MethodNames \ {n} :
                          methodMiddlewares'[o] = methodMiddlewares[o]
              /\ UNCHANGED <<routes, classMiddlewares>>
        /\ Declarations' = Declarations + 1
      ]_<<routes, classMiddlewares, methodMiddlewares>>

\* the same route was declared twice on the same method, and a middleware
\* was applied: the list holds both identical entries
C13_Witness ==
    /\ Len(routes) = 2 /\ routes[1] = routes[2]
    /\ Len(classMiddlewares) + Len(methodMiddlewares[1]) = 1

(***************************************************************************)
(* C14: the registration constructs the controller once, before any        *)
(* request is served, and the handler method of every request is called on *)
(* that instance: serving requests constructs no controller.               *)
(***************************************************************************)
C14_SingletonController ==
    /\ router # <<>> => ControllerInstances = { <<"controller", 1>> }
    /\ \A r \in Reqs :
          LET q == requests[r]
          IN  Served(r) =>
                /\ router # <<>>
                /\ q.handlerCalls = 1 => q.receiver = <<"controller", 1>>
                /\ q.handlerCalls = 0 => q.receiver = <<"none", 0>>

\* the handler has been invoked for two requests
C14_Witness ==
    \A r \in Reqs : Served(r) /\ requests[r].handlerCalls = 1

(***************************************************************************)
(* C15: requests are isolated. A step in which one request raises an error *)
(* changes nothing of any other request (the middleware it has run, its    *)
(* handler call and result, its response, its own errors) and nothing of   *)
(* the router or the metadata; and a request that raised no error itself   *)
(* has nothing forwarded to the error layer, whatever the others did.      *)
(***************************************************************************)
RaisesError(r) == requests'[r].thrown > requests[r].thrown

C15_FailureIsolation ==
    /\ [](\A r \in Reqs :
            requests[r].thrown = 0 =>
                (requests[r].forwarded = <<>> /\ requests[r].unhandled = 0))
    /\ [][\A r \in Reqs :
            RaisesError(r) =>
                /\ \A o \in Reqs \ {r} : requests'[o] = requests[o]
                /\ UNCHANGED <<metaVars, router>>]_vars

\* one request has had its error forwarded while the other, with no error
\* of its own, is suspended in the middle of its chain
C15_Witness ==
    \E r, o \in Reqs :
        /\ r # o /\ Served(r) /\ Served(o)
        /\ requests[r].thrown = 1 /\ Len(requests[r].forwarded) = 1
        /\ requests[o].thrown = 0
        /\ \E i \in 1..Len(requests[o].frames) : requests[o].frames[i].st = "wait"

(***************************************************************************)
(* C16: every call of getRouter returns the engine's one router object,    *)
(* and a request entering through any reference returned so far is matched *)
(* against every layer bound so far, those bound after the reference was   *)
(* returned included.                                                      *)
(***************************************************************************)
C16_SameRouter ==
    \A k \in 1..Len(routerRefs) :
        /\ routerRefs[k].id = EngineRouter
        /\ \A j \in 1..Len(routerRefs) : routerRefs[j].id = routerRefs[k].id
        /\ \A i \in 1..Len(router) :
              /\ RouterOf(routerRefs[k])[i] = router[i]
              /\ LET hit == RouteRequest(RouterOf(routerRefs[k]), router[i].method,
                                         router[i].path)
                 IN  hit.layer \in 1..i

\* a reference taken before the first registration and one taken between
\* two registrations both reach the layers bound by the second registration
C16_Witness ==
    /\ Len(routes) > 0
    /\ Len(routerRefs) = 2
    /\ routerRefs[1].boundThen = 0
    /\ routerRefs[2].boundThen = Len(routes)
    /\ Len(router) = 2 * Len(routes)
    /\ \A k \in 1..2 : Len(RouterOf(routerRefs[k])) = Len(router)
    /\ RouteRequest(RouterOf(routerRefs[1]), router[1].method, router[1].path).layer = 1

(***************************************************************************)
(* C17: canActivate of JwtAuthGuard and of RolesGuard returns false        *)
(* exactly when it has written one denial response, and true exactly when  *)
(* it has written none and has marked the request context (authenticated   *)
(* by JwtAuthGuard, authorized by RolesGuard). JwtAuthGuard denies with    *)
(* 401 the headers that are missing or hold no valid token; RolesGuard     *)
(* denies with 401 a request without user and with 403 a user that has     *)
(* none of the required roles or no roles array.                           *)
(***************************************************************************)
\* the authorization headers that carry a valid token
ValidHeaders ==
    { <<"B", "e", "a", "r", "e", "r", " ">> \o <<"v", "a", "l", "i", "d", "-", "j", "w", "t", "-", "t", "o", "k", "e", "n", "-", "h", "e", "r", "e">>,
      <<"v", "a", "l", "i", "d", "-", "j", "w", "t", "-", "t", "o", "k", "e", "n", "-", "w", "i", "t", "h", "o", "u", "t", "-", "b", "e", "a", "r", "e", "r">>,
      <<"B", "e", "a", "r", "e", "r", " ">> \o <<"a", "b", "c", "d", "e", "f", "g", "h", "i", "j", "k">>,
      <<"a", "b", "c", "d", "e", "f", "g", "h", "i", "j", "k">> }

\* the guard called last marked the request context
ContextMarked(g) ==
    IF g.guard = "JwtAuthGuard" THEN g.req.context.authenticated
    ELSE g.req.context.authorized

\* the status with which the guard called last has to deny, 0 when it has to
\* let the request pass
DueDenial(g) ==
    IF g.guard = "JwtAuthGuard"
    THEN IF g.req.authorization \in ValidHeaders THEN 0 ELSE 401
    ELSE IF ~g.req.user.present THEN 401
         ELSE IF ~g.req.user.hasRoles \/ g.requiredRoles \cap g.req.user.roles = {} THEN 403
         ELSE 0

C17_GuardContract ==
    guardCall.guard \in {"JwtAuthGuard", "RolesGuard"} =>
        /\ guardCall.returned \in {"true", "false"}
        /\ guardCall.returned = "false" <=>
               /\ guardCall.res.writes = 1
               /\ guardCall.res.statusCode \in {401, 403}
               /\ guardCall.res.body.error =
                      Str(IF guardCall.res.statusCode = 401 THEN "Unauthorized"
                          ELSE "Forbidden")
        /\ guardCall.returned = "true" <=>
               /\ guardCall.res.writes = 0
               /\ guardCall.res.statusCode = FreshResponse.statusCode
               /\ ContextMarked(guardCall)
        /\ guardCall.returned = "false" <=> DueDenial(guardCall) # 0
        /\ guardCall.returned = "false" => guardCall.res.statusCode = DueDenial(guardCall)

\* RolesGuard has denied a user without roles array with 403, after
\* JwtAuthGuard let the request pass; or it has let a user with a required
\* role pass
C17_Witness ==
    /\ guardCall.guard = "RolesGuard"
    /\ \/ /\ guardCall.req.context.authenticated
          /\ guardCall.returned = "false" /\ guardCall.res.statusCode = 403
          /\ ~guardCall.req.user.hasRoles
       \/ /\ guardCall.returned = "true" /\ guardCall.req.context.authorized
          /\ guardCall.req.user.hasRoles

(***************************************************************************)
(* C18: when a handler of a route registered through AnxietyApplication    *)
(* throws an HttpException that carries status s, the response has status  *)
(* s and the structured body {statusCode, timestamp, path, method, error,   *)
(* message}.                                                               *)
(***************************************************************************)
StructuredFields == {"statusCode", "timestamp", "path", "method", "error", "message"}

\* the application has answered a request whose handler threw an HttpException
AnsweredHttpException ==
    /\ filterPc = "returned" /\ handledBy = "ErrorHandlingMiddleware"
    /\ exception.kind = "HttpException"

C18_HttpExceptionKeepsStatus ==
    AnsweredHttpException =>
        /\ filterRes.writes = 1
        /\ filterRes.statusCode = exception.status
        /\ StructuredFields \subseteq DOMAIN filterRes.body
        /\ filterRes.body.statusCode = exception.status

(***************************************************************************)
(* C19: when two route declarations of a controller have the same method   *)
(* and the same full path, both are bound to the router, and a matching    *)
(* request goes to the handler registered later: the layer a request is    *)
(* dispatched to is the last bound of the layers with its method and path. *)
(***************************************************************************)
\* the layers bound with the method and the full path of layer k
SameRouteAs(k) ==
    {j \in 1..Len(router) :
        router[j].method = router[k].method /\ router[j].path = router[k].path}

C19_LastRegistrationWins ==
    /\ router # <<>> =>
          \A n \in 1..Len(routes) : \E k \in 1..Len(router) : router[k].methodName = n
    /\ dispatched.layer # 0 =>
          \A j \in SameRouteAs(dispatched.layer) : j <= dispatched.layer

(***************************************************************************)
(* C20: every registration binds the controller's routes in the order of   *)
(* the stable partition of the declared list: the static routes in         *)
(* declaration order, then the dynamic routes in declaration order.        *)
(* Handler methods are named by the order of their declarations, so the    *)
(* declared order of two routes is the order of their method names.        *)
(***************************************************************************)
\* the numbers of a set in ascending order
RECURSIVE Ascending(_)
Ascending(S) ==
    IF S = {} THEN <<>>
    ELSE LET least == CHOOSE n \in S : \A o \in S : n <= o
         IN  <<least>> \o Ascending(S \ {least})

DeclaredStatic == {routes[i].methodName : i \in {j \in 1..Len(routes) : ~IsDynamic(routes[j])}}

DeclaredDynamic == {routes[i].methodName : i \in {j \in 1..Len(routes) : IsDynamic(routes[j])}}

\* the method names of the layers that the b-th registration bound, in
\* binding order
BoundOrder(b) == [i \in 1..Len(routes) |-> router[(b - 1) * Len(routes) + i].methodName]

C20_StablePartition ==
    \A b \in 1..Cardinality(ControllerInstances) :
        BoundOrder(b) = Ascending(DeclaredStatic) \o Ascending(DeclaredDynamic)

\* two static routes declared around a dynamic one and registered twice
C20_Witness ==
    /\ Cardinality(ControllerInstances) = 2
    /\ Len(router) = 6
    /\ BoundOrder(2) = <<1, 3, 2>>

(***************************************************************************)
(* C21: when several descriptors of a handler carry the same index, the    *)
(* argument at that index is the value resolved for the one that comes     *)
(* last in the stored list, on the call that sorts the list and on every   *)
(* later call.                                                             *)
(***************************************************************************)
\* the position in ps of the last descriptor with index i, 0 when there is none
LastWithIndex(ps, i) ==
    LET hits == {k \in 1..Len(ps) : ps[k].index = i}
    IN  IF hits = {} THEN 0 ELSE CHOOSE k \in hits : \A j \in hits : j <= k

LaterDescriptorWins(ps, req, as) ==
    \A i \in 0..MaxIndex :
        LastWithIndex(ps, i) # 0 =>
            /\ Len(as) >= i + 1
            /\ as[i + 1] = ResolveParam(req, ps[LastWithIndex(ps, i)])

C21_LaterDescriptorWins ==
    /\ [](args # NoArgs => LaterDescriptorWins(paramMetadata, argReq, args))
    /\ [][args' # args \/ argReq' # argReq =>
             LaterDescriptorWins(paramMetadata, argReq', args')]_vars

\* two descriptors with index 0 that resolve to different values, declared
\* with a descriptor of index 1 between them, and the later one's value passed
C21_Witness ==
    /\ args # NoArgs
    /\ \E j, k \in 1..Len(paramMetadata) :
          /\ j < k
          /\ paramMetadata[j].index = paramMetadata[k].index
          /\ ResolveParam(argReq, paramMetadata[j]) # ResolveParam(argReq, paramMetadata[k])
          /\ args[paramMetadata[k].index + 1] = ResolveParam(argReq, paramMetadata[k])

(***************************************************************************)
(* C22: the Router Engine never writes to the metadata store. A step of    *)
(* the engine (a registration, the routing of a request, the serving of a  *)
(* request, the extraction of a handler's arguments) leaves the stored     *)
(* route list, the middleware lists and the parameter descriptor list as   *)
(* they were, in content and in order.                                     *)
(***************************************************************************)
EngineStep ==
    \/ router' # router
    \/ dispatched' # dispatched
    \/ requests' # requests
    \/ args' # args

C22_MetadataReadOnly ==
    [][EngineStep => UNCHANGED <<metaVars, paramMetadata>>]_vars

(***************************************************************************)
(* C23: while the handler or a middleware of another request never         *)
(* resolves, a request whose own awaitables resolve runs its chain to the  *)
(* end and receives its response, from its handler, its middleware or the  *)
(* error layer its error was forwarded to.                                 *)
(***************************************************************************)
\* no wrapper of the request is on the call stack or suspended
Settled(r) ==
    /\ Served(r)
    /\ \A i \in 1..Len(requests[r].frames) : requests[r].frames[i].st \in {"idle", "done"}

\* a response was written, or the error layer was given an error to answer
Answered(r) == requests[r].res.writes > 0 \/ requests[r].forwarded # <<>>

\* another request is suspended, where it may stay forever
OtherPending(r) ==
    \E o \in Reqs \ {r} : \E i \in 1..Len(requests[o].frames) :
        requests[o].frames[i].st = "wait"

C23_OthersComplete == Served(Steady) ~> (Settled(Steady) /\ Answered(Steady))

\* the progress alone: the request runs its chain to the end
C23_OthersSettle == Served(Steady) ~> Settled(Steady)

\* the request settled while another request was suspended
C23_SettledBesidePending == Settled(Steady) /\ OtherPending(Steady)

(***************************************************************************)
(* C28: for every request at most one response is written, and once it is  *)
(* written no component attempts a second write: not the engine's          *)
(* automatic JSON, not the error handling reached through next(error), not *)
(* an interceptor that reports an error and rethrows it.                   *)
(***************************************************************************)
C28_SingleResponse ==
    \A r \in Reqs :
        LET q == requests[r]
        IN  Served(r) =>
              /\ q.res.writes <= 1
              /\ q.errorLayer # "rejected"
              /\ q.manualSend => q.engineJson = 0

(***************************************************************************)
(* C29: a request that matched a route, whose middleware all proceeded and *)
(* whose handler returned or threw, ends in exactly one of two outcomes: a *)
(* response has been written, or the error has been forwarded to the error *)
(* layer. A handler that returns undefined without writing is included.    *)
(***************************************************************************)
\* every wrapper of the request has finished, the handler's included
RanToEnd(r) ==
    /\ Settled(r)
    /\ requests[r].frames[HandlerLayer(requests[r])].st = "done"

C29_OneOutcome ==
    \A r \in Reqs :
        RanToEnd(r) =>
            (requests[r].res.writes > 0) # (requests[r].forwarded # <<>>)

(***************************************************************************)
(* C30: a route or parameter declaration on a class leaves the stored      *)
(* route list and the stored parameter descriptor list of every other      *)
(* class unchanged, also when the class extends another one (the classes   *)
(* that extend the declaring class, which read its list along the chain,   *)
(* are not counted among the others); the route list of a class that       *)
(* extends nothing holds only routes declared on it, and registering it    *)
(* binds only those.                                                       *)
(***************************************************************************)
OnlyOwn(list, class) == \A k \in 1..Len(list) : list[k].declaredOn = class

C30_ClassIsolation ==
    /\ [](\A class \in Classes :
            /\ Parent(class) = NoClass =>
                  OnlyOwn(StoredList(reflect, reflect.routes, class), class)
            /\ \A k \in 1..Len(reflect.bound) :
                  (reflect.bound[k].class = class /\ Parent(class) = NoClass) =>
                      OnlyOwn(reflect.bound[k].routes, class))
    /\ [][\A class \in Classes :
            (reflect'.last # class /\ Parent(class) # reflect'.last) =>
                /\ StoredList(reflect', reflect'.routes, class)
                       = StoredList(reflect, reflect.routes, class)
                /\ StoredList(reflect', reflect'.params, class)
                       = StoredList(reflect, reflect.params, class)]_reflect

(***************************************************************************)
(* C24: after any sequence of intercept calls and cleanups, for every      *)
(* configured maxSize, the cache never holds more than maxSize entries.    *)
(***************************************************************************)
C24_SizeBound == Len(cache.entries) <= cache.maxSize

(***************************************************************************)
(* C25: the entry evicted to make room is the least recently used one: an  *)
(* entry that was served by a hit more recently than another entry was     *)
(* last used (stored or served) is not evicted while that other entry      *)
(* stays.                                                                  *)
(***************************************************************************)
LastUse(entry) == IF entry.hit > entry.stored THEN entry.hit ELSE entry.stored

C25_EvictsLeastRecentlyUsed ==
    [][cache'.evicted # <<>> =>
          LET e == cache.entries[KeyIndex(cache.entries, cache'.evicted[1])]
          IN  \A k \in 1..Len(cache.entries) :
                  LET o == cache.entries[k]
                  IN  (o.key # e.key /\ KeyIndex(cache'.entries, o.key) # 0) =>
                          ~(e.hit > LastUse(o))]_cache

\* C26: whenever the service is not connected, getRepository, runMigrations,
\* revertMigrations and query each fail with an error whose message contains
\* 'Database not connected' and make no call on the data source; a call of
\* theirs reaches the data source only in a step taken while isConnected() is
\* true.
GuardedOps == {"getRepository", "runMigrations", "revertMigrations", "query"}

GuardedCall == database'.calls # database.calls /\ database'.last.op \in GuardedOps

C26_NotConnectedFails ==
    [][GuardedCall =>
         /\ ~isConnected(database) =>
               /\ database'.last.outcome = "threw"
               /\ Includes(database'.last.message, NotConnected)
               /\ database'.reached = database.reached
         /\ database'.reached # database.reached => isConnected(database)]_vars

\* a query refused after the connection was opened and closed again
C26_Witness ==
    /\ database.everConnected /\ ~isConnected(database)
    /\ database.last.op = "query" /\ database.last.outcome = "threw"
    /\ Includes(database.last.message, NotConnected)
    /\ database.reached = <<"initialize", "destroy">>

\* C27: transform throws for every string field whose length is less than its
\* rule's minLength or greater than its rule's maxLength, and accepts the
\* field when its length lies within both bounds, for every non-negative
\* minLength and maxLength, zero included (the rule sets nothing but the type
\* and the bounds).
TooShort == pipe.rule.hasMinLength /\ Len(pipe.input.text) < pipe.rule.minLength

TooLong == pipe.rule.hasMaxLength /\ Len(pipe.input.text) > pipe.rule.maxLength

C27_LengthBounds ==
    (pipe.outcome # "idle" /\ pipe.input.type = "string" /\ ~pipe.rule.required) =>
        /\ (TooShort \/ TooLong) => pipe.outcome = "threw"
        /\ ~(TooShort \/ TooLong) =>
               pipe.outcome = "returned" /\ pipe.result = pipe.input

====
